---- MODULE Spec2Model ----
(***************************************************************************)
(* A model of the ArangoDB-cuGraph adapter (adbcug_adapter).               *)
(*                                                                         *)
(* The adapter is a single-threaded program: the constructor, then one     *)
(* call of cugraph_to_arangodb (specification Spec) or of                  *)
(* arangodb_to_cugraph (specification SpecADB).  `pc' is the position of   *)
(* the running call.  The database and the graph engine are the external   *)
(* collaborators of the adapter; they appear with the state the adapter    *)
(* reads and writes: the graphs and collections of the database, the jobs  *)
(* queued on the asynchronous-execution handle, and the edge list loaded   *)
(* into the graph engine.                                                  *)
(***************************************************************************)
EXTENDS Integers, Sequences, FiniteSets, TLC

\* ----------------------------------------------------------------- bounds
MaxNodes == 3
MaxEdges == 2
MaxBatch == 2

\* ------------------------------------------------------------ Python bits
None == "None"
NoExc == "none"

\* an optional argument or value: Nothing is Python's None
Nothing == <<>>
Some(x) == <<x>>

\* x or y, for an optional int x
PyOr(x, y) == IF x = Nothing \/ x[1] = 0 THEN y ELSE x[1]

Digit(d) ==
  CASE d = 0 -> "0" [] d = 1 -> "1" [] d = 2 -> "2" [] d = 3 -> "3"
    [] d = 4 -> "4" [] d = 5 -> "5" [] d = 6 -> "6" [] d = 7 -> "7"
    [] d = 8 -> "8" [] d = 9 -> "9"

RECURSIVE str(_)
\* str(i) of a non-negative int
str(i) == IF i < 10 THEN Digit(i) ELSE str(i \div 10) \o Digit(i % 10)

\* f"{col}/{key}"
adb_id_of(col, key) == col \o "/" \o key

Range(s) == {s[k] : k \in 1..Len(s)}

\* the elements of s that satisfy Test, in order
RECURSIVE SelectIn(_, _)
SelectIn(s, keep) ==
  IF s = <<>> THEN <<>>
  ELSE IF Head(s) \in keep THEN <<Head(s)>> \o SelectIn(Tail(s), keep)
       ELSE SelectIn(Tail(s), keep)

\* ------------------------------------------------------------------ types
\* the classes of the objects handed to the constructor, with their bases
ClassBase(c) ==
  CASE c = "StandardDatabase" -> "Database"
    [] c = "Database" -> "object"
    [] c = "dict" -> "object"
    [] c = "ADBCUG_Controller" -> "Abstract_ADBCUG_Controller"
    [] c = "Abstract_ADBCUG_Controller" -> "object"
    [] c = "Custom_ADBCUG_Controller" -> "ADBCUG_Controller"
    [] c = "Routing_ADBCUG_Controller" -> "ADBCUG_Controller"
    [] c = "Renaming_ADBCUG_Controller" -> "ADBCUG_Controller"
    [] c = "Bad_ADBCUG_Controller" -> "object"
    [] OTHER -> "object"

RECURSIVE issubclass(_, _)
issubclass(c, base) ==
  IF c = base THEN TRUE
  ELSE IF c = "object" THEN FALSE
  ELSE issubclass(ClassBase(c), base)

DbClasses == {"StandardDatabase", "dict"}
ControllerClasses ==
  {"ADBCUG_Controller", "Custom_ADBCUG_Controller", "Routing_ADBCUG_Controller",
   "Renaming_ADBCUG_Controller", "Bad_ADBCUG_Controller"}

\* ------------------------------------------------------------- controller
\* A call of a controller method: the value returned, or the exception.
Ret(v) == [exc |-> NoExc, val |-> v]
Raise(e) == [exc |-> e, val |-> None]

\* (mutant) the default does not raise either
identify_cugraph_node_no_raise(cntrl, cug_node_id, adb_v_cols) == Ret(cug_node_id[1])

\* cuGraph node ids are tuples <<label, number>> (CUGId allows tuples).
\* _identify_cugraph_node: the default raises; an override returns the
\* leading part of the node id, whether or not it names a vertex collection.
identify_cugraph_node(cntrl, cug_node_id, adb_v_cols) ==
  CASE cntrl = "ADBCUG_Controller" -> Raise("NotImplementedError")
    [] cntrl = "Renaming_ADBCUG_Controller" -> Raise("NotImplementedError")
    [] cntrl = "Custom_ADBCUG_Controller" -> Ret(cug_node_id[1])
    [] cntrl = "Routing_ADBCUG_Controller" -> Ret(cug_node_id[1])

\* (mutant) the default returns the first edge collection
identify_cugraph_edge_no_raise(cntrl, from_node_id, to_node_id, cug_map, adb_e_cols) ==
  CASE cntrl = "ADBCUG_Controller" -> Ret(adb_e_cols[1])
    [] cntrl = "Renaming_ADBCUG_Controller" -> Ret(adb_e_cols[1])
    [] cntrl = "Custom_ADBCUG_Controller" -> Ret("invalid_edge_collection")
    [] cntrl = "Routing_ADBCUG_Controller" ->
         Ret(CASE to_node_id[1] = "Person" -> "likes"
               [] to_node_id[1] = "Car" -> "dislikes"
               [] OTHER -> "invalid_edge_collection")

\* _identify_cugraph_edge: the default raises; Custom returns a fixed
\* invalid name; Routing chooses by the destination node.
identify_cugraph_edge(cntrl, from_node_id, to_node_id, cug_map, adb_e_cols) ==
  CASE cntrl = "ADBCUG_Controller" -> Raise("NotImplementedError")
    [] cntrl = "Renaming_ADBCUG_Controller" -> Raise("NotImplementedError")
    [] cntrl = "Custom_ADBCUG_Controller" -> Ret("invalid_edge_collection")
    [] cntrl = "Routing_ADBCUG_Controller" ->
         Ret(CASE to_node_id[1] = "Person" -> "likes"
               [] to_node_id[1] = "Car" -> "dislikes"
               [] OTHER -> "invalid_edge_collection")

\* _keyify_cugraph_node: str(i)
keyify_cugraph_node(cntrl, i, cug_node_id, col) == str(i)

\* _keyify_cugraph_edge: str(i)
keyify_cugraph_edge(cntrl, i, from_node_id, to_node_id, cug_map, col) == str(i)

\* _prepare_cugraph_node, _prepare_cugraph_edge: pass
prepare_cugraph_node(cntrl, cug_node, col) == cug_node
prepare_cugraph_edge(cntrl, cug_edge, col) == cug_edge

\* --------------------------------------------------------------- database
NoGraph == [exists |-> FALSE, edge_definitions |-> <<>>, orphan_collections |-> <<>>]
Absent == [exists |-> FALSE, docs |-> <<>>]
Collection(docs) == [exists |-> TRUE, docs |-> docs]
GraphNames == {"G"}

\* every collection name of the model, in the order sorted() gives
SortedNames ==
  <<"Car", "Person", "dislikes", "drives", "is_divisible_by", "likes", "numbers">>
AllCols == Range(SortedNames)

EdgeDef(e, f, t) ==
  [edge_collection |-> e, from_vertex_collections |-> f, to_vertex_collections |-> t]

ED_divisibility == <<EdgeDef("is_divisible_by", <<"numbers">>, <<"numbers">>)>>
ED_drivers == <<EdgeDef("drives", <<"Person">>, <<"Car">>)>>
ED_feelings ==
  <<EdgeDef("likes", <<"Person">>, <<"Person">>),
    EdgeDef("dislikes", <<"Person">>, <<"Person">>)>>

\* a value of a list parameter that may be omitted
ListOf(x) == IF x = Nothing THEN <<>> ELSE x[1]

\* Graph.vertex_collections(): the vertex collections of the edge
\* definitions and the orphans, sorted
vertex_collections(g) ==
  LET used == UNION {Range(d.from_vertex_collections) \cup Range(d.to_vertex_collections)
                       : d \in Range(g.edge_definitions)}
              \cup Range(g.orphan_collections)
  IN SelectIn(SortedNames, used)

\* [c["edge_collection"] for c in adb_graph.edge_definitions()]
edge_collections(g) ==
  [k \in 1..Len(g.edge_definitions) |-> g.edge_definitions[k].edge_collection]

\* db.create_graph(name, edge_definitions, orphan_collections): the graph,
\* and its collections when they do not exist yet
create_graph(graphs, cols, name, edge_definitions, orphan_collections) ==
  LET g == [exists |-> TRUE, edge_definitions |-> ListOf(edge_definitions),
            orphan_collections |-> ListOf(orphan_collections)]
      needed == Range(vertex_collections(g)) \cup Range(edge_collections(g))
  IN [graphs |-> [graphs EXCEPT ![name] = g],
      cols |-> [c \in AllCols |-> IF c \in needed /\ ~cols[c].exists THEN Collection(<<>>) ELSE cols[c]],
      graph |-> g]

\* db.delete_graph(name, ignore_missing=True): collections are kept
delete_graph(graphs, name) == [graphs EXCEPT ![name] = NoGraph]

\* (mutant) an existing graph is kept whatever overwrite_graph says
create_adb_graph_never_deletes(graphs, cols, name, overwrite_graph, edge_definitions, orphan_collections) ==
  IF graphs[name].exists
    THEN [graphs |-> graphs, cols |-> cols, graph |-> graphs[name]]
    ELSE create_graph(graphs, cols, name, edge_definitions, orphan_collections)

\* (mutant) an existing graph is replaced when edge_definitions are given
create_adb_graph_redefines(graphs, cols, name, overwrite_graph, edge_definitions, orphan_collections) ==
  LET graphs1 == IF overwrite_graph \/ edge_definitions # Nothing
                   THEN delete_graph(graphs, name) ELSE graphs
  IN IF graphs1[name].exists
       THEN [graphs |-> graphs1, cols |-> cols, graph |-> graphs1[name]]
       ELSE create_graph(graphs1, cols, name, edge_definitions, orphan_collections)

\* __create_adb_graph
create_adb_graph(graphs, cols, name, overwrite_graph, edge_definitions, orphan_collections) ==
  LET graphs1 == IF overwrite_graph THEN delete_graph(graphs, name) ELSE graphs
  IN IF graphs1[name].exists
       THEN [graphs |-> graphs1, cols |-> cols, graph |-> graphs1[name]]
       ELSE create_graph(graphs1, cols, name, edge_definitions, orphan_collections)

\* collection.import_bulk(doc_list) carried out by the database
import_bulk(cols, col, doc_list) == [cols EXCEPT ![col].docs = @ \o doc_list]


\* ------------------------------------------- cuGraph -> ArangoDB, helpers
EmptyMap == [x \in {} |-> None]

\* adb_docs is a dict of lists, kept here as the sequence of its items in
\* insertion order.  adb_docs[col].append(doc)
RECURSIVE docs_append(_, _, _)
docs_append(adb_docs, col, doc) ==
  IF adb_docs = <<>> THEN <<[col |-> col, doc_list |-> <<doc>>]>>
  ELSE IF Head(adb_docs).col = col
         THEN <<[col |-> col, doc_list |-> Append(Head(adb_docs).doc_list, doc)]>>
              \o Tail(adb_docs)
         ELSE <<Head(adb_docs)>> \o docs_append(Tail(adb_docs), col, doc)

Outcome(e, m, d) == [exc |-> e, cug_map |-> m, adb_docs |-> d]

\* (mutant) _identify_cugraph_node is called whatever has_one_v_col says
process_cug_node_always_identifies(cntrl, i, cug_id, cug_map, adb_docs, adb_v_cols, has_one_v_col) ==
  LET ident == identify_cugraph_node(cntrl, cug_id, adb_v_cols)
      col == ident.val
      key == keyify_cugraph_node(cntrl, i, cug_id, col)
      adb_id == adb_id_of(col, key)
      cug_node == [_id |-> adb_id, _key |-> key]
  IN IF ident.exc # NoExc THEN Outcome(ident.exc, cug_map, adb_docs)
     ELSE IF col \notin Range(adb_v_cols) THEN Outcome("ValueError", cug_map, adb_docs)
     ELSE Outcome(NoExc, (cug_id :> adb_id) @@ cug_map,
                  docs_append(adb_docs, col, prepare_cugraph_node(cntrl, cug_node, col)))

\* (mutant) the node is recorded and buffered before its collection is checked
process_cug_node_checks_late(cntrl, i, cug_id, cug_map, adb_docs, adb_v_cols, has_one_v_col) ==
  LET ident == IF has_one_v_col THEN Ret(adb_v_cols[1])
               ELSE identify_cugraph_node(cntrl, cug_id, adb_v_cols)
      col == ident.val
      key == keyify_cugraph_node(cntrl, i, cug_id, col)
      adb_id == adb_id_of(col, key)
      cug_node == [_id |-> adb_id, _key |-> key]
  IN IF ident.exc # NoExc THEN Outcome(ident.exc, cug_map, adb_docs)
     ELSE Outcome(IF ~has_one_v_col /\ col \notin Range(adb_v_cols)
                    THEN "ValueError" ELSE NoExc,
                  (cug_id :> adb_id) @@ cug_map,
                  docs_append(adb_docs, col, prepare_cugraph_node(cntrl, cug_node, col)))

\* (mutant) every node goes to the first vertex collection
process_cug_node_first_col(cntrl, i, cug_id, cug_map, adb_docs, adb_v_cols, has_one_v_col) ==
  LET ident == IF has_one_v_col THEN Ret(adb_v_cols[1])
               ELSE identify_cugraph_node(cntrl, cug_id, adb_v_cols)
      col == adb_v_cols[1]
      key == keyify_cugraph_node(cntrl, i, cug_id, col)
      adb_id == adb_id_of(col, key)
      cug_node == [_id |-> adb_id, _key |-> key]
  IN IF ident.exc # NoExc THEN Outcome(ident.exc, cug_map, adb_docs)
     ELSE IF ~has_one_v_col /\ ident.val \notin Range(adb_v_cols)
       THEN Outcome("ValueError", cug_map, adb_docs)
     ELSE Outcome(NoExc, (cug_id :> adb_id) @@ cug_map,
                  docs_append(adb_docs, col, prepare_cugraph_node(cntrl, cug_node, col)))

\* (mutant) cug_map records the key of the node, not its _id
process_cug_node_maps_key(cntrl, i, cug_id, cug_map, adb_docs, adb_v_cols, has_one_v_col) ==
  LET ident == IF has_one_v_col THEN Ret(adb_v_cols[1])
               ELSE identify_cugraph_node(cntrl, cug_id, adb_v_cols)
      col == ident.val
      key == keyify_cugraph_node(cntrl, i, cug_id, col)
      cug_node == [_id |-> adb_id_of(col, key), _key |-> key]
  IN IF ident.exc # NoExc THEN Outcome(ident.exc, cug_map, adb_docs)
     ELSE IF ~has_one_v_col /\ col \notin Range(adb_v_cols)
       THEN Outcome("ValueError", cug_map, adb_docs)
     ELSE Outcome(NoExc, (cug_id :> key) @@ cug_map,
                  docs_append(adb_docs, col, prepare_cugraph_node(cntrl, cug_node, col)))

\* __process_cug_node
process_cug_node(cntrl, i, cug_id, cug_map, adb_docs, adb_v_cols, has_one_v_col) ==
  LET ident == IF has_one_v_col THEN Ret(adb_v_cols[1])
               ELSE identify_cugraph_node(cntrl, cug_id, adb_v_cols)
      col == ident.val
      key == keyify_cugraph_node(cntrl, i, cug_id, col)
      adb_id == adb_id_of(col, key)
      cug_node == [_id |-> adb_id, _key |-> key]
  IN IF ident.exc # NoExc THEN Outcome(ident.exc, cug_map, adb_docs)
     ELSE IF ~has_one_v_col /\ col \notin Range(adb_v_cols)
       THEN Outcome("ValueError", cug_map, adb_docs)
     ELSE Outcome(NoExc, (cug_id :> adb_id) @@ cug_map,
                  docs_append(adb_docs, col, prepare_cugraph_node(cntrl, cug_node, col)))

\* (mutant) the edge is buffered before its collection is checked
process_cug_edge_checks_late(cntrl, i, from_node_id, to_node_id, cug_map, adb_docs, adb_e_cols, has_one_e_col, edge_attr, cug_weights) ==
  LET ident == IF has_one_e_col THEN Ret(adb_e_cols[1])
               ELSE identify_cugraph_edge(cntrl, from_node_id, to_node_id, cug_map, adb_e_cols)
      col == ident.val
      key == keyify_cugraph_edge(cntrl, i, from_node_id, to_node_id, cug_map, col)
      cug_edge == [_key |-> key, _from |-> cug_map[from_node_id], _to |-> cug_map[to_node_id]]
      weighted == IF cug_weights # Nothing THEN (edge_attr :> cug_weights[1][i + 1]) @@ cug_edge
                  ELSE cug_edge
  IN IF ident.exc # NoExc THEN Outcome(ident.exc, cug_map, adb_docs)
     ELSE Outcome(IF ~has_one_e_col /\ col \notin Range(adb_e_cols)
                    THEN "ValueError" ELSE NoExc,
                  cug_map,
                  docs_append(adb_docs, col, prepare_cugraph_edge(cntrl, weighted, col)))

\* (mutant) _from and _to are exchanged
process_cug_edge_swapped(cntrl, i, from_node_id, to_node_id, cug_map, adb_docs, adb_e_cols, has_one_e_col, edge_attr, cug_weights) ==
  LET ident == IF has_one_e_col THEN Ret(adb_e_cols[1])
               ELSE identify_cugraph_edge(cntrl, from_node_id, to_node_id, cug_map, adb_e_cols)
      col == ident.val
      key == keyify_cugraph_edge(cntrl, i, from_node_id, to_node_id, cug_map, col)
      cug_edge == [_key |-> key, _from |-> cug_map[to_node_id], _to |-> cug_map[from_node_id]]
      weighted == IF cug_weights # Nothing THEN (edge_attr :> cug_weights[1][i + 1]) @@ cug_edge
                  ELSE cug_edge
  IN IF ident.exc # NoExc THEN Outcome(ident.exc, cug_map, adb_docs)
     ELSE IF ~has_one_e_col /\ col \notin Range(adb_e_cols)
       THEN Outcome("ValueError", cug_map, adb_docs)
     ELSE Outcome(NoExc, cug_map,
                  docs_append(adb_docs, col, prepare_cugraph_edge(cntrl, weighted, col)))

\* (mutant) every edge document carries the weight of row 0
process_cug_edge_first_weight(cntrl, i, from_node_id, to_node_id, cug_map, adb_docs, adb_e_cols, has_one_e_col, edge_attr, cug_weights) ==
  LET ident == IF has_one_e_col THEN Ret(adb_e_cols[1])
               ELSE identify_cugraph_edge(cntrl, from_node_id, to_node_id, cug_map, adb_e_cols)
      col == ident.val
      key == keyify_cugraph_edge(cntrl, i, from_node_id, to_node_id, cug_map, col)
      cug_edge == [_key |-> key, _from |-> cug_map[from_node_id], _to |-> cug_map[to_node_id]]
      weighted == IF cug_weights # Nothing THEN (edge_attr :> cug_weights[1][1]) @@ cug_edge
                  ELSE cug_edge
  IN IF ident.exc # NoExc THEN Outcome(ident.exc, cug_map, adb_docs)
     ELSE IF ~has_one_e_col /\ col \notin Range(adb_e_cols)
       THEN Outcome("ValueError", cug_map, adb_docs)
     ELSE Outcome(NoExc, cug_map,
                  docs_append(adb_docs, col, prepare_cugraph_edge(cntrl, weighted, col)))

\* __process_cug_edge; i counts from 0, cug_weights is the weight column
\* when there is one (a sequence, so that row i is element i + 1)
process_cug_edge(cntrl, i, from_node_id, to_node_id, cug_map, adb_docs, adb_e_cols, has_one_e_col, edge_attr, cug_weights) ==
  LET ident == IF has_one_e_col THEN Ret(adb_e_cols[1])
               ELSE identify_cugraph_edge(cntrl, from_node_id, to_node_id, cug_map, adb_e_cols)
      col == ident.val
      key == keyify_cugraph_edge(cntrl, i, from_node_id, to_node_id, cug_map, col)
      cug_edge == [_key |-> key, _from |-> cug_map[from_node_id], _to |-> cug_map[to_node_id]]
      weighted == IF cug_weights # Nothing THEN (edge_attr :> cug_weights[1][i + 1]) @@ cug_edge
                  ELSE cug_edge
  IN IF ident.exc # NoExc THEN Outcome(ident.exc, cug_map, adb_docs)
     ELSE IF ~has_one_e_col /\ col \notin Range(adb_e_cols)
       THEN Outcome("ValueError", cug_map, adb_docs)
     ELSE IF from_node_id \notin DOMAIN cug_map \/ to_node_id \notin DOMAIN cug_map
       THEN Outcome("KeyError", cug_map, adb_docs)
     ELSE Outcome(NoExc, cug_map,
                  docs_append(adb_docs, col, prepare_cugraph_edge(cntrl, weighted, col)))

\* (mutant) on the async handle the collections are imported in reverse
insert_adb_docs_async_reversed(adb_docs, use_async) ==
  IF Len(adb_docs) = 0 THEN <<>>
  ELSE [k \in 1..Len(adb_docs) |->
          LET n == IF use_async THEN Len(adb_docs) + 1 - k ELSE k
          IN [col |-> adb_docs[n].col, doc_list |-> adb_docs[n].doc_list,
              handle |-> IF use_async THEN "async_db" ELSE "db"]]

\* ---------------------------------------------------------------- C22
\* (mutant) only the first collection of the buffer is imported
insert_adb_docs_first_col_only(adb_docs, use_async) ==
  IF Len(adb_docs) = 0 THEN <<>>
  ELSE <<[col |-> adb_docs[1].col, doc_list |-> adb_docs[1].doc_list,
          handle |-> IF use_async THEN "async_db" ELSE "db"]>>

\* __insert_adb_docs: the import_bulk calls it makes, in order (one per
\* collection of adb_docs, through the handle use_async selects); adb_docs
\* is empty afterwards
insert_adb_docs(adb_docs, use_async) ==
  IF Len(adb_docs) = 0 THEN <<>>
  ELSE [k \in 1..Len(adb_docs) |->
          [col |-> adb_docs[k].col, doc_list |-> adb_docs[k].doc_list,
           handle |-> IF use_async THEN "async_db" ELSE "db"]]



\* ------------------------------------------------------------------ state
VARIABLES
  pc,          \* position of the program
  adapter,     \* the fields of the ADBCUG_Adapter object
  raised,      \* the exception that ended the constructor or the call
  raised_in,   \* the function that raised it
  db_graphs,   \* database: graph name -> graph, or NoGraph
  db_cols,     \* database: collection name -> its documents, or Absent
  async_jobs,  \* imports submitted through the async handle, not yet run
  call,        \* the arguments of the running call
  adb_graph,   \* cugraph_to_arangodb: adb_graph
  adb_v_cols,  \* cugraph_to_arangodb: adb_v_cols
  adb_e_cols,  \* cugraph_to_arangodb: adb_e_cols
  cug_map,     \* cugraph_to_arangodb: cug_map
  adb_docs,    \* cugraph_to_arangodb: adb_docs
  i,           \* cugraph_to_arangodb: the loop variable i
  imports,     \* history: the import_bulk calls made so far
  adb_map,     \* arangodb_to_cugraph: adb_map
  cug_edges,   \* arangodb_to_cugraph: cug_edges
  col_i,       \* arangodb_to_cugraph: position in the metagraph's collections
  result       \* the value returned by the call

vars == <<pc, adapter, raised, raised_in, db_graphs, db_cols, async_jobs, call, adb_graph,
          adb_v_cols, adb_e_cols, cug_map, adb_docs, i, imports, adb_map,
          cug_edges, col_i, result>>

db_vars == <<db_graphs, db_cols, async_jobs>>
c2a_vars == <<adb_graph, adb_v_cols, adb_e_cols, cug_map, adb_docs, i, imports>>
a2c_vars == <<adb_map, cug_edges, col_i>>

Unset == "unset"

\* ------------------------------------------------------------ constructor
\* (mutant) the database is stored and the async context opened before the
\* controller is checked
ADBCUG_Adapter_init_stores_early(db, controller) ==
  IF ~issubclass(db, "StandardDatabase")
    THEN [exc |-> "TypeError",
          adapter |-> [db |-> Unset, async_db |-> Unset, cntrl |-> Unset]]
  ELSE IF ~issubclass(controller, "ADBCUG_Controller")
    THEN [exc |-> "TypeError",
          adapter |-> [db |-> db, async_db |-> "begin_async_execution", cntrl |-> Unset]]
  ELSE [exc |-> NoExc,
        adapter |-> [db |-> db, async_db |-> "begin_async_execution", cntrl |-> controller]]

\* ADBCUG_Adapter.__init__: the fields of the new object, or TypeError
ADBCUG_Adapter_init(db, controller) ==
  IF ~issubclass(db, "StandardDatabase")
    THEN [exc |-> "TypeError",
          adapter |-> [db |-> Unset, async_db |-> Unset, cntrl |-> Unset]]
  ELSE IF ~issubclass(controller, "ADBCUG_Controller")
    THEN [exc |-> "TypeError",
          adapter |-> [db |-> Unset, async_db |-> Unset, cntrl |-> Unset]]
  ELSE [exc |-> NoExc,
        adapter |-> [db |-> db, async_db |-> "begin_async_execution", cntrl |-> controller]]

New ==
  /\ pc = "new"
  /\ \E db \in DbClasses, controller \in ControllerClasses :
       LET made == ADBCUG_Adapter_init(db, controller)
       IN /\ adapter' = made.adapter
          /\ raised' = made.exc
          /\ raised_in' = IF made.exc = NoExc THEN None ELSE "__init__"
          /\ call' = [op |-> "__init__", db |-> db, controller |-> controller]
          /\ pc' = IF made.exc = NoExc THEN "ready" ELSE "raised"
  /\ UNCHANGED <<db_vars, c2a_vars, a2c_vars, result>>

\* ------------------------------------------------ inputs, cuGraph -> ADB
\* The graphs handed in: n nodes, numbered in the order of nodes(); the
\* label of a node is the collection its id points at ("Bike" names none).
NodeLabel(kind, k) ==
  IF kind = "stray" /\ k = 2 THEN "Bike"
  ELSE IF k % 2 = 1 THEN "Person" ELSE "Car"

NodeId(kind, k) == <<NodeLabel(kind, k), k>>

\* rows of the edge list, as pairs of node numbers
EdgePairs(n) ==
  IF n = 0 THEN {} ELSE IF n = 1 THEN {<<1, 1>>} ELSE {<<1, 2>>, <<2, n>>}

SeqsUpTo(S, m) == UNION {[1..k -> S] : k \in 0..m}

\* weight of row j of a weighted edge list
WeightOf(j) == 10 * j + 5

CugGraph(kind, n, pairs, weighted) ==
  [nodes |-> [k \in 1..n |-> NodeId(kind, k)],
   edges |-> [j \in 1..Len(pairs) |->
                [src |-> NodeId(kind, pairs[j][1]), dst |-> NodeId(kind, pairs[j][2])]],
   weights |-> IF weighted THEN Some([j \in 1..Len(pairs) |-> WeightOf(j)]) ELSE Nothing]

CugGraphs ==
  UNION {{CugGraph(kind, n, pairs, weighted) :
            pairs \in SeqsUpTo(EdgePairs(n), MaxEdges),
            weighted \in IF kind = "mixed" THEN BOOLEAN ELSE {FALSE}} :
         kind \in {"mixed", "stray"}, n \in 0..MaxNodes}

BatchSizes == {Nothing} \cup {Some(b) : b \in 1..MaxBatch}

\* edge_definitions and orphan_collections as the tests pass them
GraphArgs ==
  {[edge_definitions |-> Some(ED_divisibility), orphan_collections |-> Nothing],
   [edge_definitions |-> Some(ED_drivers), orphan_collections |-> Nothing],
   [edge_definitions |-> Some(ED_feelings), orphan_collections |-> Nothing],
   [edge_definitions |-> Some(ED_feelings), orphan_collections |-> Some(<<"Car">>)],
   [edge_definitions |-> Nothing, orphan_collections |-> Nothing]}

\* the database before the call: empty, or holding graph G of an earlier
\* import with documents in its collections
EmptyDb ==
  [graphs |-> [g \in GraphNames |-> NoGraph], cols |-> [c \in AllCols |-> Absent]]

OldDb ==
  [graphs |-> [g \in GraphNames |->
                 [exists |-> TRUE, edge_definitions |-> ED_feelings,
                  orphan_collections |-> <<>>]],
   cols |-> [c \in AllCols |->
               CASE c = "Person" -> Collection(<<[_id |-> "Person/old", _key |-> "old"]>>)
                 [] c = "likes" -> Collection(<<>>)
                 [] c = "dislikes" ->
                      Collection(<<[_key |-> "old", _from |-> "Person/old",
                                    _to |-> "Person/old"]>>)
                 [] OTHER -> Absent]]

InitWith(dbs) ==
  /\ pc = "new"
  /\ adapter = [db |-> Unset, async_db |-> Unset, cntrl |-> Unset]
  /\ raised = NoExc
  /\ raised_in = None
  /\ \E d \in dbs : db_graphs = d.graphs /\ db_cols = d.cols
  /\ async_jobs = <<>>
  /\ call = [op |-> None]
  /\ adb_graph = NoGraph /\ adb_v_cols = <<>> /\ adb_e_cols = <<>>
  /\ cug_map = EmptyMap /\ adb_docs = <<>> /\ i = 0 /\ imports = <<>>
  /\ adb_map = EmptyMap /\ cug_edges = <<>> /\ col_i = 0
  /\ result = Nothing

Init == InitWith({EmptyDb, OldDb})

\* ------------------------------------------------- cugraph_to_arangodb
has_one_v_col == Len(adb_v_cols) = 1
has_one_e_col == Len(adb_e_cols) = 1

cug_nodes == call.cug_graph.nodes
view_edge_list == call.cug_graph.edges
is_weighted == call.cug_graph.weights # Nothing

node_batch_size == PyOr(call.batch_size, Len(cug_nodes))
edge_batch_size == PyOr(call.batch_size, Len(view_edge_list))

\* the call up to the node loop: the graph is created or looked up, its
\* collections are read, the map and the buffer start empty (call.found
\* keeps the database as the call found it)
cugraph_to_arangodb ==
  /\ pc = "ready"
  /\ \E g \in CugGraphs, a \in GraphArgs, overwrite_graph \in BOOLEAN,
        batch_size \in BatchSizes, use_async \in BOOLEAN :
       LET made == create_adb_graph(db_graphs, db_cols, "G", overwrite_graph,
                                    a.edge_definitions, a.orphan_collections)
       IN /\ db_graphs["G"].exists /\ ~overwrite_graph
               => a.edge_definitions \in {Nothing, Some(ED_drivers)}
                  /\ a.orphan_collections = Nothing
          /\ call' = [op |-> "cugraph_to_arangodb", name |-> "G", cug_graph |-> g,
                      edge_definitions |-> a.edge_definitions,
                      orphan_collections |-> a.orphan_collections,
                      overwrite_graph |-> overwrite_graph, batch_size |-> batch_size,
                      use_async |-> use_async,
                      edge_attr |-> IF g.weights # Nothing THEN "quotient" ELSE "weights",
                      found |-> [graphs |-> db_graphs, cols |-> db_cols]]
          /\ db_graphs' = made.graphs
          /\ db_cols' = made.cols
          /\ adb_graph' = made.graph
          /\ adb_v_cols' = vertex_collections(made.graph)
          /\ adb_e_cols' = edge_collections(made.graph)
  /\ cug_map' = EmptyMap
  /\ adb_docs' = <<>>
  /\ i' = 1
  /\ pc' = "node_loop"
  /\ UNCHANGED <<adapter, raised, raised_in, async_jobs, imports, a2c_vars, result>>

\* __insert_adb_docs as the call runs it, one import_bulk request per step:
\* the request for the first collection still in the buffer is sent (the
\* standard handle carries it out before it returns, the async handle
\* queues it) and the collection is deleted from the buffer; with an empty
\* buffer nothing happens.  The history notes the phase, the number of
\* nodes or edges processed so far, and whether this is the insert after
\* the loop.
InsertAdbDocs(phase, after, rest) ==
  LET calls == insert_adb_docs(adb_docs, call.use_async)
  IN IF calls = <<>>
       THEN UNCHANGED <<adb_docs, imports, db_cols, async_jobs>>
       ELSE /\ adb_docs' = SelectSeq(adb_docs, LAMBDA e : e.col # calls[1].col)
            /\ imports' = Append(imports,
                 [col |-> calls[1].col, doc_list |-> calls[1].doc_list,
                  handle |-> calls[1].handle, phase |-> phase, after |-> after,
                  rest |-> rest])
            /\ IF call.use_async
                 THEN async_jobs' = Append(async_jobs, calls[1]) /\ db_cols' = db_cols
                 ELSE /\ db_cols' = import_bulk(db_cols, calls[1].col, calls[1].doc_list)
                      /\ async_jobs' = async_jobs

\* the request of this step is the last of the running __insert_adb_docs,
\* which returns after it
InsertReturns == Len(insert_adb_docs(adb_docs, call.use_async)) <= 1

\* for i, cug_id in enumerate(cug_nodes, 1): 1. Process cuGraph node
NodeLoopProcess ==
  /\ pc = "node_loop"
  /\ i <= Len(cug_nodes)
  /\ LET out == process_cug_node(adapter.cntrl, i, cug_nodes[i], cug_map, adb_docs,
                                 adb_v_cols, has_one_v_col)
     IN /\ cug_map' = out.cug_map
        /\ adb_docs' = out.adb_docs
        /\ raised' = out.exc
        /\ raised_in' = IF out.exc = NoExc THEN None ELSE "__process_cug_node"
        /\ pc' = IF out.exc = NoExc THEN "node_batch" ELSE "raised"
  /\ UNCHANGED <<adapter, db_vars, call, adb_graph, adb_v_cols, adb_e_cols, i,
                 imports, a2c_vars, result>>

\* (mutant) the batch test counts the nodes from 0
NodeLoopInsert_from_zero ==
  /\ pc = "node_batch"
  /\ IF (i - 1) % node_batch_size = 0
       THEN /\ InsertAdbDocs("nodes", i, FALSE)
            /\ IF InsertReturns THEN i' = i + 1 /\ pc' = "node_loop"
                 ELSE UNCHANGED <<i, pc>>
       ELSE /\ UNCHANGED <<adb_docs, imports, db_cols, async_jobs>>
            /\ i' = i + 1
            /\ pc' = "node_loop"
  /\ UNCHANGED <<adapter, raised, raised_in, db_graphs, call, adb_graph, adb_v_cols,
                 adb_e_cols, cug_map, a2c_vars, result>>

\* 2. Insert batch of nodes: if i % node_batch_size == 0.  While the
\* insert has requests left to send, the program stays here.
NodeLoopInsert ==
  /\ pc = "node_batch"
  /\ IF i % node_batch_size = 0
       THEN /\ InsertAdbDocs("nodes", i, FALSE)
            /\ IF InsertReturns THEN i' = i + 1 /\ pc' = "node_loop"
                 ELSE UNCHANGED <<i, pc>>
       ELSE /\ UNCHANGED <<adb_docs, imports, db_cols, async_jobs>>
            /\ i' = i + 1
            /\ pc' = "node_loop"
  /\ UNCHANGED <<adapter, raised, raised_in, db_graphs, call, adb_graph, adb_v_cols, adb_e_cols,
                 cug_map, a2c_vars, result>>

\* (mutant) the nodes that remain in the buffer are not inserted
NodeLoopEnd_no_insert ==
  /\ pc = "node_loop"
  /\ i > Len(cug_nodes)
  /\ i' = 0
  /\ pc' = "edge_loop"
  /\ UNCHANGED <<adapter, raised, raised_in, db_vars, call, adb_graph, adb_v_cols,
                 adb_e_cols, cug_map, adb_docs, imports, a2c_vars, result>>

\* Insert remaining nodes, request by request, then the edge list is read
NodeLoopEnd ==
  /\ pc = "node_loop"
  /\ i > Len(cug_nodes)
  /\ InsertAdbDocs("nodes", Len(cug_nodes), TRUE)
  /\ IF InsertReturns THEN i' = 0 /\ pc' = "edge_loop"
       ELSE UNCHANGED <<i, pc>>
  /\ UNCHANGED <<adapter, raised, raised_in, db_graphs, call, adb_graph, adb_v_cols, adb_e_cols,
                 cug_map, a2c_vars, result>>

\* cug_weights = cug_edges[edge_attr] if cug_graph.is_weighted() else None
cug_weights == IF is_weighted THEN call.cug_graph.weights ELSE Nothing

\* (mutant) when an edge raises, the graph of the call is deleted again
EdgeLoopProcess_rolls_back ==
  /\ pc = "edge_loop"
  /\ i < Len(view_edge_list)
  /\ LET out == process_cug_edge(adapter.cntrl, i, view_edge_list[i + 1].src,
                                 view_edge_list[i + 1].dst, cug_map, adb_docs,
                                 adb_e_cols, has_one_e_col, call.edge_attr, cug_weights)
     IN /\ cug_map' = out.cug_map
        /\ adb_docs' = out.adb_docs
        /\ raised' = out.exc
        /\ raised_in' = IF out.exc = NoExc THEN None ELSE "__process_cug_edge"
        /\ pc' = IF out.exc = NoExc THEN "edge_batch" ELSE "raised"
        /\ db_graphs' = IF out.exc = NoExc THEN db_graphs
                        ELSE delete_graph(db_graphs, call.name)
  /\ UNCHANGED <<adapter, db_cols, async_jobs, call, adb_graph, adb_v_cols, adb_e_cols, i,
                 imports, a2c_vars, result>>

\* for i in range(len(cug_edges)): 1. Process cuGraph edge
EdgeLoopProcess ==
  /\ pc = "edge_loop"
  /\ i < Len(view_edge_list)
  /\ LET out == process_cug_edge(adapter.cntrl, i, view_edge_list[i + 1].src,
                                 view_edge_list[i + 1].dst, cug_map, adb_docs,
                                 adb_e_cols, has_one_e_col, call.edge_attr, cug_weights)
     IN /\ cug_map' = out.cug_map
        /\ adb_docs' = out.adb_docs
        /\ raised' = out.exc
        /\ raised_in' = IF out.exc = NoExc THEN None ELSE "__process_cug_edge"
        /\ pc' = IF out.exc = NoExc THEN "edge_batch" ELSE "raised"
  /\ UNCHANGED <<adapter, db_vars, call, adb_graph, adb_v_cols, adb_e_cols, i,
                 imports, a2c_vars, result>>

\* (mutant) the edge loop never inserts a batch
EdgeLoopInsert_never ==
  /\ pc = "edge_batch"
  /\ i' = i + 1
  /\ pc' = "edge_loop"
  /\ UNCHANGED <<adapter, raised, raised_in, db_vars, call, adb_graph, adb_v_cols,
                 adb_e_cols, cug_map, adb_docs, imports, a2c_vars, result>>

\* 2. Insert batch of edges: if i % edge_batch_size == 0.  While the
\* insert has requests left to send, the program stays here.
EdgeLoopInsert ==
  /\ pc = "edge_batch"
  /\ IF i % edge_batch_size = 0
       THEN /\ InsertAdbDocs("edges", i + 1, FALSE)
            /\ IF InsertReturns THEN i' = i + 1 /\ pc' = "edge_loop"
                 ELSE UNCHANGED <<i, pc>>
       ELSE /\ UNCHANGED <<adb_docs, imports, db_cols, async_jobs>>
            /\ i' = i + 1
            /\ pc' = "edge_loop"
  /\ UNCHANGED <<adapter, raised, raised_in, db_graphs, call, adb_graph, adb_v_cols, adb_e_cols,
                 cug_map, a2c_vars, result>>

\* Insert remaining edges, request by request; return adb_graph
EdgeLoopEnd ==
  /\ pc = "edge_loop"
  /\ i >= Len(view_edge_list)
  /\ InsertAdbDocs("edges", Len(view_edge_list), TRUE)
  /\ IF InsertReturns THEN result' = Some(adb_graph) /\ pc' = "done"
       ELSE UNCHANGED <<result, pc>>
  /\ UNCHANGED <<adapter, raised, raised_in, db_graphs, call, adb_graph, adb_v_cols, adb_e_cols,
                 cug_map, i, a2c_vars>>

\* the database runs the oldest import queued on the async handle
AsyncJobRuns ==
  /\ async_jobs # <<>>
  /\ db_cols' = import_bulk(db_cols, Head(async_jobs).col, Head(async_jobs).doc_list)
  /\ async_jobs' = Tail(async_jobs)
  /\ UNCHANGED <<pc, adapter, raised, raised_in, db_graphs, call, c2a_vars, a2c_vars,
                 result>>

Next ==
  \/ New
  \/ cugraph_to_arangodb
  \/ NodeLoopProcess
  \/ NodeLoopInsert
  \/ NodeLoopEnd
  \/ EdgeLoopProcess
  \/ EdgeLoopInsert
  \/ EdgeLoopEnd
  \/ AsyncJobRuns

Spec == Init /\ [][Next]_vars


\* ------------------------------------------------- arangodb_to_cugraph
\* _prepare_arangodb_vertex: the default does nothing, and the controllers
\* of the tests inherit it; Renaming is a subclass that overrides this
\* method only, as its docstring invites, and rewrites _id to
\* "<collection>_<key>"
prepare_arangodb_vertex(cntrl, adb_vertex, col) ==
  IF cntrl = "Renaming_ADBCUG_Controller"
    THEN [adb_vertex EXCEPT !._id = col \o "_" \o adb_vertex._key]
    ELSE adb_vertex

\* (mutant) the id read before _prepare_arangodb_vertex is the cuGraph id
process_adb_vertex_keeps_id(cntrl, adb_v, v_col, map) ==
  LET adb_id == adb_v._id
  IN (adb_id :> adb_id) @@ map

\* __process_adb_vertex: adb_map[adb_id] = cug_id
process_adb_vertex(cntrl, adb_v, v_col, map) ==
  LET adb_id == adb_v._id
      prepared == prepare_arangodb_vertex(cntrl, adb_v, v_col)
      cug_id == prepared._id
  IN (adb_id :> cug_id) @@ map

\* (mutant) the default is returned whether the key is there or not
dict_get_default_only(d, key, default) == default

\* dict.get(key, default)
dict_get(d, key, default) == IF key \in DOMAIN d THEN d[key] ELSE default

EdgesOutcome(e, edges) == [exc |-> e, cug_edges |-> edges]

\* (mutant) an edge between two nodes that already have one is skipped
process_adb_edge_no_parallel(adb_e, e_col, map, edges, edge_attr, default_edge_attr_value) ==
  IF adb_e._from \notin DOMAIN map \/ adb_e._to \notin DOMAIN map
    THEN EdgesOutcome("KeyError", edges)
  ELSE LET from_node_id == map[adb_e._from]
           to_node_id == map[adb_e._to]
       IN IF \E n \in 1..Len(edges) : edges[n][1] = from_node_id /\ edges[n][2] = to_node_id
            THEN EdgesOutcome(NoExc, edges)
            ELSE EdgesOutcome(NoExc,
                   Append(edges, <<from_node_id, to_node_id,
                                   dict_get(adb_e, edge_attr, default_edge_attr_value)>>))

\* (mutant) an edge with an end that is not in adb_map is skipped
process_adb_edge_skips_missing(adb_e, e_col, map, edges, edge_attr, default_edge_attr_value) ==
  IF adb_e._from \notin DOMAIN map \/ adb_e._to \notin DOMAIN map
    THEN EdgesOutcome(NoExc, edges)
  ELSE EdgesOutcome(NoExc,
         Append(edges, <<map[adb_e._from], map[adb_e._to],
                         dict_get(adb_e, edge_attr, default_edge_attr_value)>>))

\* __process_adb_edge: both ends are looked up in adb_map (KeyError when
\* one is missing), then (from, to, weight) is appended to cug_edges
process_adb_edge(adb_e, e_col, map, edges, edge_attr, default_edge_attr_value) ==
  IF adb_e._from \notin DOMAIN map \/ adb_e._to \notin DOMAIN map
    THEN EdgesOutcome("KeyError", edges)
  ELSE LET from_node_id == map[adb_e._from]
           to_node_id == map[adb_e._to]
       IN EdgesOutcome(NoExc,
            Append(edges, <<from_node_id, to_node_id,
                            dict_get(adb_e, edge_attr, default_edge_attr_value)>>))

\* __process_adb_cursor over a vertex collection: every document in turn
RECURSIVE process_adb_vertices(_, _, _, _)
process_adb_vertices(cntrl, docs, v_col, map) ==
  IF docs = <<>> THEN map
  ELSE process_adb_vertices(cntrl, Tail(docs), v_col,
                            process_adb_vertex(cntrl, Head(docs), v_col, map))

\* __process_adb_cursor over an edge collection: every document in turn,
\* up to the first that raises
RECURSIVE process_adb_edges(_, _, _, _, _, _)
process_adb_edges(docs, e_col, map, edges, edge_attr, default_edge_attr_value) ==
  IF docs = <<>> THEN EdgesOutcome(NoExc, edges)
  ELSE LET one == process_adb_edge(Head(docs), e_col, map, edges, edge_attr,
                                   default_edge_attr_value)
       IN IF one.exc # NoExc THEN one
          ELSE process_adb_edges(Tail(docs), e_col, map, one.cug_edges, edge_attr,
                                 default_edge_attr_value)

\* the nodes of an edge list, in the order they first appear
RECURSIVE FirstSeen(_, _)
FirstSeen(ids, seen) ==
  IF ids = <<>> THEN seen
  ELSE FirstSeen(Tail(ids),
                 IF Head(ids) \in Range(seen) THEN seen ELSE Append(seen, Head(ids)))

\* CUGMultiGraph(directed=True), no edge list loaded
CUGMultiGraph == [nodes |-> <<>>, edges |-> <<>>, weights |-> Nothing]

\* from_cudf_edgelist: the graph holds the rows of the frame
from_cudf_edgelist(g, df) ==
  [nodes |-> FirstSeen([n \in 1..Len(df) |-> df[n].src] \o [n \in 1..Len(df) |-> df[n].dst],
                       <<>>),
   edges |-> [n \in 1..Len(df) |-> [src |-> df[n].src, dst |-> df[n].dst]],
   weights |-> Some([n \in 1..Len(df) |-> df[n].weight])]

\* (mutant) the rows of the DataFrame are the edges in reverse order
create_cug_graph_reversed(cug_graph, edges, edge_attr) ==
  LET df == [n \in 1..Len(edges) |->
               [src |-> edges[Len(edges) + 1 - n][1], dst |-> edges[Len(edges) + 1 - n][2],
                weight |-> edges[Len(edges) + 1 - n][3]]]
  IN from_cudf_edgelist(IF cug_graph = Nothing THEN CUGMultiGraph ELSE cug_graph[1], df)

\* __create_cug_graph: DataFrame(cug_edges, columns=[src, dst, edge_attr])
\* loaded into cug_graph, or into a new multi-directed graph
create_cug_graph(cug_graph, edges, edge_attr) ==
  LET df == [n \in 1..Len(edges) |->
               [src |-> edges[n][1], dst |-> edges[n][2], weight |-> edges[n][3]]]
  IN from_cudf_edgelist(IF cug_graph = Nothing THEN CUGMultiGraph ELSE cug_graph[1], df)

\* ------------------------------------------------ inputs, ADB -> cuGraph
\* a database with two vertex and three edge collections: parallel edges
\* and edges without the weight attribute in likes, an edge to a vertex
\* that does not exist in dislikes
ReadDb ==
  [graphs |-> [g \in GraphNames |->
                 [exists |-> TRUE, edge_definitions |-> ED_feelings \o ED_drivers,
                  orphan_collections |-> <<>>]],
   cols |-> [c \in AllCols |->
               CASE c = "Person" ->
                      Collection(<<[_id |-> "Person/1", _key |-> "1"],
                                   [_id |-> "Person/2", _key |-> "2"]>>)
                 [] c = "Car" -> Collection(<<[_id |-> "Car/1", _key |-> "1"]>>)
                 [] c = "likes" ->
                      Collection(<<[_id |-> "likes/1", _key |-> "1", _from |-> "Person/1",
                                    _to |-> "Person/2", weights |-> 7],
                                   [_id |-> "likes/2", _key |-> "2", _from |-> "Person/1",
                                    _to |-> "Person/2"],
                                   [_id |-> "likes/3", _key |-> "3", _from |-> "Person/2",
                                    _to |-> "Person/2", weights |-> 0]>>)
                 [] c = "drives" ->
                      Collection(<<[_id |-> "drives/1", _key |-> "1", _from |-> "Person/1",
                                    _to |-> "Car/1", weights |-> 3]>>)
                 [] c = "dislikes" ->
                      Collection(<<[_id |-> "dislikes/1", _key |-> "1",
                                    _from |-> "Person/2", _to |-> "Person/9"]>>)
                 [] OTHER -> Absent]]

\* the same database with every edge between vertices that exist
SoundDb ==
  [graphs |-> ReadDb.graphs,
   cols |-> [ReadDb.cols EXCEPT !["dislikes"] =
               Collection(<<[_id |-> "dislikes/1", _key |-> "1",
                             _from |-> "Person/2", _to |-> "Person/1"]>>)]]

\* the orders a set can be iterated in
Perms(S) == {q \in [1..Cardinality(S) -> S] : Range(q) = S}
NamesOf(S) == UNION {Perms(T) : T \in SUBSET S}

\* metagraphs: each key is missing or lists collections in dict order
Metagraphs ==
  [vertexCollections : {Nothing} \cup {Some(q) : q \in NamesOf({"Person", "Car"})},
   edgeCollections : {Nothing} \cup {Some(q) : q \in NamesOf({"likes", "drives", "dislikes"})}]

EdgeAttrs == {"weights", "quotient"}
DefaultValues == {Nothing, Some(0), Some(5)}

InitADB == InitWith({EmptyDb, ReadDb, SoundDb})

\* the parameters of arangodb_to_cugraph as the body sees them; the maps
\* start empty
EnterArangodbToCugraph(entry, metagraph, edge_attr, passed, default_edge_attr_value, cug_graph) ==
  /\ call' = [op |-> "arangodb_to_cugraph", entry |-> entry, metagraph |-> metagraph,
              edge_attr |-> edge_attr, passed_default |-> passed,
              default_edge_attr_value |-> default_edge_attr_value,
              cug_graph |-> cug_graph]
  /\ adb_map' = EmptyMap
  /\ cug_edges' = <<>>
  /\ col_i' = 1
  /\ IF metagraph.vertexCollections = Nothing
       THEN /\ pc' = "raised"
            /\ raised' = "KeyError"
            /\ raised_in' = "arangodb_to_cugraph"
       ELSE /\ pc' = "vertex_collections"
            /\ UNCHANGED <<raised, raised_in>>
  /\ UNCHANGED <<adapter, db_vars, c2a_vars, result>>

\* arangodb_to_cugraph(name, metagraph, edge_attr, default_edge_attr_value,
\* cug_graph), default_edge_attr_value = 0 when omitted
arangodb_to_cugraph ==
  /\ pc = "ready"
  /\ \E metagraph \in Metagraphs, edge_attr \in EdgeAttrs, default \in DefaultValues,
        cug_graph \in {Nothing, Some(CUGMultiGraph)} :
       EnterArangodbToCugraph("arangodb_to_cugraph", metagraph, edge_attr, default,
                              IF default = Nothing THEN 0 ELSE default[1], cug_graph)

\* arangodb_collections_to_cugraph: the metagraph is built from the two
\* sets; arangodb_to_cugraph is called with name, metagraph and edge_attr
arangodb_collections_to_cugraph ==
  /\ pc = "ready"
  /\ \E V \in SUBSET {"Person", "Car"}, E \in SUBSET {"likes", "drives", "dislikes"},
        edge_attr \in EdgeAttrs, default \in DefaultValues :
       \E v_cols \in Perms(V), e_cols \in Perms(E) :
         EnterArangodbToCugraph("arangodb_collections_to_cugraph",
                                [vertexCollections |-> Some(v_cols),
                                 edgeCollections |-> Some(e_cols)],
                                edge_attr, default, 0, Nothing)

\* arangodb_graph_to_cugraph: the collections are those of the graph
arangodb_graph_to_cugraph ==
  /\ pc = "ready"
  /\ \E name \in GraphNames, edge_attr \in EdgeAttrs, default \in DefaultValues :
       IF ~db_graphs[name].exists
         THEN /\ pc' = "raised"
              /\ raised' = "VertexCollectionListError"
              /\ raised_in' = "arangodb_graph_to_cugraph"
              /\ call' = [op |-> "arangodb_to_cugraph",
                          entry |-> "arangodb_graph_to_cugraph"]
              /\ UNCHANGED <<adapter, db_vars, c2a_vars, a2c_vars, result>>
         ELSE LET graph == db_graphs[name]
                  v_cols == vertex_collections(graph)
              IN \E e_cols \in Perms(Range(edge_collections(graph))) :
                   EnterArangodbToCugraph("arangodb_graph_to_cugraph",
                                          [vertexCollections |-> Some(v_cols),
                                           edgeCollections |-> Some(e_cols)],
                                          edge_attr, default, 0, Nothing)

\* one round of the loop over the vertex collections: fetch, process
VertexCollection ==
  /\ pc = "vertex_collections"
  /\ col_i <= Len(call.metagraph.vertexCollections[1])
  /\ LET v_col == call.metagraph.vertexCollections[1][col_i]
     IN IF ~db_cols[v_col].exists
          THEN /\ pc' = "raised"
               /\ raised' = "DocumentCountError"
               /\ raised_in' = "__fetch_adb_docs"
               /\ UNCHANGED <<adb_map, col_i>>
          ELSE /\ adb_map' = process_adb_vertices(adapter.cntrl, db_cols[v_col].docs,
                                                  v_col, adb_map)
               /\ col_i' = col_i + 1
               /\ UNCHANGED <<pc, raised, raised_in>>
  /\ UNCHANGED <<adapter, db_vars, call, c2a_vars, cug_edges, result>>

\* the loop over the vertex collections is over, the one over the edge
\* collections begins
VertexCollectionsEnd ==
  /\ pc = "vertex_collections"
  /\ col_i > Len(call.metagraph.vertexCollections[1])
  /\ col_i' = 1
  /\ IF call.metagraph.edgeCollections = Nothing
       THEN /\ pc' = "raised"
            /\ raised' = "KeyError"
            /\ raised_in' = "arangodb_to_cugraph"
       ELSE /\ pc' = "edge_collections"
            /\ UNCHANGED <<raised, raised_in>>
  /\ UNCHANGED <<adapter, db_vars, call, c2a_vars, adb_map, cug_edges, result>>

\* one round of the loop over the edge collections: fetch, process
EdgeCollection ==
  /\ pc = "edge_collections"
  /\ col_i <= Len(call.metagraph.edgeCollections[1])
  /\ LET e_col == call.metagraph.edgeCollections[1][col_i]
         done == process_adb_edges(db_cols[e_col].docs, e_col, adb_map, cug_edges,
                                   call.edge_attr, call.default_edge_attr_value)
     IN IF ~db_cols[e_col].exists
          THEN /\ pc' = "raised"
               /\ raised' = "DocumentCountError"
               /\ raised_in' = "__fetch_adb_docs"
               /\ UNCHANGED <<cug_edges, col_i>>
          ELSE /\ cug_edges' = done.cug_edges
               /\ IF done.exc # NoExc
                    THEN /\ pc' = "raised"
                         /\ raised' = done.exc
                         /\ raised_in' = "__process_adb_edge"
                         /\ UNCHANGED col_i
                    ELSE /\ col_i' = col_i + 1
                         /\ UNCHANGED <<pc, raised, raised_in>>
  /\ UNCHANGED <<adapter, db_vars, call, c2a_vars, adb_map, result>>

\* after the last edge collection: __create_cug_graph, return
CreateCugGraph ==
  /\ pc = "edge_collections"
  /\ col_i > Len(call.metagraph.edgeCollections[1])
  /\ result' = Some(create_cug_graph(call.cug_graph, cug_edges, call.edge_attr))
  /\ pc' = "done"
  /\ UNCHANGED <<adapter, raised, raised_in, db_vars, call, c2a_vars, a2c_vars>>

NextADB ==
  \/ New
  \/ arangodb_to_cugraph
  \/ arangodb_collections_to_cugraph
  \/ arangodb_graph_to_cugraph
  \/ VertexCollection
  \/ VertexCollectionsEnd
  \/ EdgeCollection
  \/ CreateCugGraph

SpecADB == InitADB /\ [][NextADB]_vars


\* ================================================================ claims
C2A == call.op = "cugraph_to_arangodb"
Returned == C2A /\ pc = "done"
AllImportsRun == async_jobs = <<>>

\* the documents, of a list, that satisfy a test on their fields
WithKey(doc_list, key) == {n \in 1..Len(doc_list) : doc_list[n]._key = key}
FromTo(doc_list, from, to) ==
  {n \in 1..Len(doc_list) :
     /\ "_from" \in DOMAIN doc_list[n]
     /\ doc_list[n]._from = from
     /\ doc_list[n]._to = to}

\* C1: the constructor raises TypeError when db is no StandardDatabase and
\* when controller is no ADBCUG_Controller, and then none of the three
\* fields of the adapter has been set.
C1_ConstructorTypeError ==
  (call.op = "__init__" /\ (~issubclass(call.db, "StandardDatabase")
                            \/ ~issubclass(call.controller, "ADBCUG_Controller")))
    => /\ pc = "raised"
       /\ raised = "TypeError"
       /\ adapter.db = Unset
       /\ adapter.async_db = Unset
       /\ adapter.cntrl = Unset

C1_Witness ==
  /\ pc = "raised"
  /\ call.op = "__init__"
  /\ call.db = "StandardDatabase"
  /\ call.controller = "Bad_ADBCUG_Controller"

\* the vertex collection and the key of node k, as the claim states them
NodeCol(k) ==
  IF Len(adb_v_cols) = 1 THEN adb_v_cols[1]
  ELSE identify_cugraph_node(adapter.cntrl, cug_nodes[k], adb_v_cols).val
NodeKey(k) == keyify_cugraph_node(adapter.cntrl, k, cug_nodes[k], NodeCol(k))

\* C2 as stated: once cugraph_to_arangodb has returned, the collection
\* chosen for each node holds a document with the node's key.
C2_Original ==
  Returned => \A k \in 1..Len(cug_nodes) :
                WithKey(db_cols[NodeCol(k)].docs, NodeKey(k)) # {}

\* C2, amended: once cugraph_to_arangodb has returned, a document with the
\* node's key has been passed to import_bulk on the collection chosen for
\* the node, and the collection holds it as soon as the database has run
\* every import of the call (at once on the standard handle, later on the
\* async handle).
C2_NodeDocuments ==
  Returned => \A k \in 1..Len(cug_nodes) :
                /\ \E m \in 1..Len(imports) :
                     /\ imports[m].col = NodeCol(k)
                     /\ WithKey(imports[m].doc_list, NodeKey(k)) # {}
                /\ AllImportsRun => WithKey(db_cols[NodeCol(k)].docs, NodeKey(k)) # {}

C2_Witness ==
  /\ Returned
  /\ AllImportsRun
  /\ call.use_async
  /\ Len(adb_v_cols) > 1
  /\ Len(cug_nodes) = MaxNodes
  /\ NodeCol(1) # NodeCol(2)

\* the edge collection of row j of the edge list (rows count from 1 here)
EdgeCol(j) ==
  IF Len(adb_e_cols) = 1 THEN adb_e_cols[1]
  ELSE identify_cugraph_edge(adapter.cntrl, view_edge_list[j].src, view_edge_list[j].dst,
                             cug_map, adb_e_cols).val
SameRows(j) == {r \in 1..Len(view_edge_list) : view_edge_list[r] = view_edge_list[j]}
EdgeDocs(j) ==
  FromTo(db_cols[EdgeCol(j)].docs, cug_map[view_edge_list[j].src],
         cug_map[view_edge_list[j].dst])

\* C3 as stated: once cugraph_to_arangodb has returned, the collection
\* chosen for each edge holds exactly one document from the id of src to
\* the id of dst.
C3_Original ==
  Returned => \A j \in 1..Len(view_edge_list) : Cardinality(EdgeDocs(j)) = 1

\* C3, amended: once cugraph_to_arangodb has returned and the database has
\* run every import of the call, the collection chosen for each edge holds
\* a document from the id of src to the id of dst for every row of the edge
\* list with that src and dst: at least one, and more for parallel edges.
C3_EdgeDocuments ==
  (Returned /\ AllImportsRun)
    => \A j \in 1..Len(view_edge_list) :
         /\ Cardinality(EdgeDocs(j)) >= 1
         /\ Cardinality(EdgeDocs(j)) >= Cardinality(SameRows(j))

C3_Witness ==
  /\ Returned
  /\ AllImportsRun
  /\ Len(adb_e_cols) > 1
  /\ Len(view_edge_list) = 2
  /\ view_edge_list[1] = view_edge_list[2]
  /\ view_edge_list[1].src # view_edge_list[1].dst
  /\ Cardinality(EdgeDocs(1)) = 2

\* the edge documents made so far: those imported and those in the buffer
EdgeDocsMade ==
  UNION {Range(imports[m].doc_list) : m \in {n \in 1..Len(imports) : imports[n].phase = "edges"}}
    \cup (IF pc \in {"edge_loop", "edge_batch"} \/ (pc = "raised" /\ raised_in = "__process_cug_edge")
            THEN UNION {Range(adb_docs[n].doc_list) : n \in 1..Len(adb_docs)}
            ELSE {})

\* C4: the document of the edge at index i carries, for a weighted graph,
\* the field edge_attr with the weight at index i, and for an unweighted
\* graph the fields _key, _from and _to only.
C4_EdgeWeights ==
  C2A => \A d \in EdgeDocsMade :
           \E r \in 0..(Len(view_edge_list) - 1) :
             /\ d._key = str(r)
             /\ d._from = cug_map[view_edge_list[r + 1].src]
             /\ d._to = cug_map[view_edge_list[r + 1].dst]
             /\ IF is_weighted
                  THEN /\ DOMAIN d = {"_key", "_from", "_to", call.edge_attr}
                       /\ d[call.edge_attr] = call.cug_graph.weights[1][r + 1]
                  ELSE DOMAIN d = {"_key", "_from", "_to"}

C4_Witness ==
  /\ Returned
  /\ is_weighted
  /\ Len(view_edge_list) = 2
  /\ Cardinality(EdgeDocsMade) = 2


InNodePhase ==
  pc \in {"node_loop", "node_batch"} \/ (pc = "raised" /\ raised_in = "__process_cug_node")
InEdgePhase ==
  pc \in {"edge_loop", "edge_batch"} \/ (pc = "raised" /\ raised_in = "__process_cug_edge")

\* the documents in the buffer
Buffered == UNION {Range(adb_docs[n].doc_list) : n \in 1..Len(adb_docs)}
\* the documents passed to import_bulk in a phase
Imported(phase) ==
  UNION {Range(imports[m].doc_list) : m \in {n \in 1..Len(imports) : imports[n].phase = phase}}

\* C6: with the default controller, several vertex collections and at
\* least one node, the call raises NotImplementedError on the first node,
\* before any document has been buffered or imported.
C6_DefaultControllerNodes ==
  (C2A /\ adapter.cntrl = "ADBCUG_Controller" /\ Len(adb_v_cols) > 1 /\ Len(cug_nodes) >= 1)
    => /\ pc \in {"node_loop", "raised"}
       /\ i = 1
       /\ imports = <<>>
       /\ adb_docs = <<>>
       /\ async_jobs = <<>>
       /\ pc = "raised" => raised = "NotImplementedError" /\ raised_in = "__process_cug_node"

C6_Witness ==
  /\ C2A
  /\ pc = "raised"
  /\ raised = "NotImplementedError"
  /\ raised_in = "__process_cug_node"
  /\ Len(adb_v_cols) > 1
  /\ Len(cug_nodes) > 1

\* node k is identified as a name that is no vertex collection of the graph
BadNode(k) ==
  LET r == identify_cugraph_node(adapter.cntrl, cug_nodes[k], adb_v_cols)
  IN r.exc = NoExc /\ r.val \notin Range(adb_v_cols)

\* C7: with several vertex collections, a node identified as a name that is
\* none of them ends the call with ValueError when it is processed; it is
\* not entered in cug_map and no document of it is buffered or imported.
C7_InvalidVertexCollection ==
  (C2A /\ Len(adb_v_cols) > 1)
    => \A k \in 1..Len(cug_nodes) :
         BadNode(k)
           => /\ InNodePhase
              /\ i <= k
              /\ (i = k /\ pc # "node_loop")
                   => pc = "raised" /\ raised = "ValueError"
              /\ cug_nodes[k] \notin DOMAIN cug_map
              /\ \A d \in Buffered \cup Imported("nodes") : d._key # str(k)

C7_Witness ==
  /\ C2A
  /\ Len(adb_v_cols) > 1
  /\ pc = "raised"
  /\ raised = "ValueError"
  /\ raised_in = "__process_cug_node"
  /\ i = 2
  /\ BadNode(2)
  /\ Buffered # {}

\* C8 as stated: with the default controller, several edge collections and
\* at least one edge, the call ends with NotImplementedError raised on the
\* first edge.
C8_Original ==
  (C2A /\ adapter.cntrl = "ADBCUG_Controller" /\ Len(adb_e_cols) > 1
       /\ Len(view_edge_list) >= 1)
    => /\ pc \notin {"edge_batch", "done"}
       /\ pc = "raised"
            => /\ raised = "NotImplementedError"
               /\ raised_in = "__process_cug_edge"
               /\ i = 0

\* C8: with the default controller, several edge collections and at least
\* one edge, the call raises NotImplementedError and no edge document is
\* made: with a single vertex collection the error comes from the first
\* edge, after all the nodes; with several vertex collections it comes
\* from the first node.
C8_DefaultControllerEdges ==
  (C2A /\ adapter.cntrl = "ADBCUG_Controller" /\ Len(adb_e_cols) > 1
       /\ Len(view_edge_list) >= 1)
    => /\ pc \notin {"edge_batch", "done"}
       /\ (pc = "raised" /\ Len(adb_v_cols) > 1)
            => raised_in = "__process_cug_node" /\ i = 1
       /\ pc = "edge_loop" => i = 0
       /\ pc = "raised" => raised = "NotImplementedError"
       /\ (pc = "raised" /\ Len(adb_v_cols) = 1)
            => /\ raised_in = "__process_cug_edge"
               /\ i = 0
               /\ DOMAIN cug_map = Range(cug_nodes)
       /\ Imported("edges") = {}

C8_Witness ==
  /\ C2A
  /\ adapter.cntrl = "ADBCUG_Controller"
  /\ pc = "raised"
  /\ raised = "NotImplementedError"
  /\ raised_in = "__process_cug_edge"
  /\ Len(adb_v_cols) = 1
  /\ Len(adb_e_cols) > 1
  /\ Imported("nodes") # {}

\* row r of the edge list (rows count from 0, as i does) is identified as
\* a name that is no edge collection of the graph
BadEdge(r) ==
  LET e == identify_cugraph_edge(adapter.cntrl, view_edge_list[r + 1].src,
                                 view_edge_list[r + 1].dst, cug_map, adb_e_cols)
  IN e.exc = NoExc /\ e.val \notin Range(adb_e_cols)

\* C9: with several edge collections, an edge identified as a name that
\* is none of them ends the call with ValueError when it is processed, and
\* no document of it is buffered or imported.
C9_InvalidEdgeCollection ==
  (C2A /\ Len(adb_e_cols) > 1)
    => \A r \in 0..(Len(view_edge_list) - 1) :
         BadEdge(r)
           => /\ pc # "done"
              /\ InEdgePhase => i <= r
              /\ pc = "edge_batch" => i < r
              /\ (pc = "raised" /\ raised_in = "__process_cug_edge" /\ i = r)
                   => raised = "ValueError"
              /\ \A d \in EdgeDocsMade : d._key # str(r)

C9_Witness ==
  /\ C2A
  /\ Len(adb_e_cols) > 1
  /\ pc = "raised"
  /\ raised = "ValueError"
  /\ raised_in = "__process_cug_edge"
  /\ i = 1
  /\ BadEdge(1)
  /\ EdgeDocsMade # {}

\* the import_bulk calls of the node phase: those of the insert after node
\* k in the loop, and those of the insert after the loop
NodeBatchImports(k) ==
  {m \in 1..Len(imports) :
     imports[m].phase = "nodes" /\ ~imports[m].rest /\ imports[m].after = k}
NodeRestImports == {m \in 1..Len(imports) : imports[m].phase = "nodes" /\ imports[m].rest}

RECURSIVE TotalDocs(_)
TotalDocs(S) ==
  IF S = {} THEN 0
  ELSE LET m == CHOOSE x \in S : TRUE
       IN Len(imports[m].doc_list) + TotalDocs(S \ {m})

KeysOf(S) == {d._key : d \in UNION {Range(imports[m].doc_list) : m \in S}}

\* the nodes that are through the loop body, batch test included
NodesThrough == IF InNodePhase THEN i - 1 ELSE Len(cug_nodes)

\* C10: with batch_size = b, the node loop imports after the b-th, 2b-th,
\* ... node and after no other; each of these imports carries the b nodes
\* processed since the one before (while its requests are being sent,
\* those not yet sent are in the buffer); the nodes left over, fewer than
\* b, are imported after the loop, in one import_bulk call for each of
\* their collections.
C10_NodeBatches ==
  (C2A /\ call.batch_size # Nothing)
    => LET b == call.batch_size[1]
           n == Len(cug_nodes)
           held == {d._key : d \in Buffered}
       IN /\ \A k \in 1..n :
               IF k <= NodesThrough /\ k % b = 0
                 THEN /\ TotalDocs(NodeBatchImports(k)) = b
                      /\ KeysOf(NodeBatchImports(k)) = {str(x) : x \in (k - b + 1)..k}
               ELSE IF pc = "node_batch" /\ k = i /\ k % b = 0
                 THEN /\ TotalDocs(NodeBatchImports(k)) + Cardinality(held) = b
                      /\ KeysOf(NodeBatchImports(k)) \cup held
                           = {str(x) : x \in (k - b + 1)..k}
                 ELSE NodeBatchImports(k) = {}
          /\ IF InNodePhase
               THEN \/ NodeRestImports = {}
                    \/ /\ pc = "node_loop" /\ i > n
                       /\ TotalDocs(NodeRestImports) + Cardinality(held) = n % b
                       /\ KeysOf(NodeRestImports) \cup held
                            = {str(x) : x \in (n - (n % b) + 1)..n}
               ELSE /\ TotalDocs(NodeRestImports) = n % b
                    /\ KeysOf(NodeRestImports) = {str(x) : x \in (n - (n % b) + 1)..n}
                    /\ \A m1, m2 \in NodeRestImports :
                         imports[m1].col = imports[m2].col => m1 = m2
                    /\ \A m1 \in NodeRestImports, m2 \in 1..Len(imports) :
                         (imports[m2].phase = "nodes" /\ ~imports[m2].rest) => m2 < m1

C10_Witness ==
  /\ C2A
  /\ pc = "edge_loop"
  /\ call.batch_size = Some(2)
  /\ Len(cug_nodes) = 3
  /\ Len(adb_v_cols) > 1
  /\ Cardinality(NodeBatchImports(2)) = 2
  /\ Cardinality(NodeRestImports) = 1


A2C == call.op = "arangodb_to_cugraph" /\ "metagraph" \in DOMAIN call

\* the documents of the edge collections named in the metagraph, as
\* (collection, position) pairs
MetagraphEdgeDocs ==
  LET e_cols == call.metagraph.edgeCollections[1]
  IN UNION {{<<e_cols[c], n>> : n \in 1..Len(db_cols[e_cols[c]].docs)} : c \in 1..Len(e_cols)}

EdgeDocAt(p) == db_cols[p[1]].docs[p[2]]

\* C5: after arangodb_to_cugraph with the default controller, the edge
\* documents of the metagraph's edge collections can be matched one-to-one
\* onto rows of the edge list with src = _from and dst = _to: for every
\* (_from, _to) there are at least as many such rows as such documents.
C5_EdgeDocumentsToRows ==
  (A2C /\ pc = "done" /\ adapter.cntrl = "ADBCUG_Controller")
    => LET rows == result[1].edges
       IN \A p \in MetagraphEdgeDocs :
            LET from == EdgeDocAt(p)._from
                to == EdgeDocAt(p)._to
            IN Cardinality({q \in MetagraphEdgeDocs :
                              EdgeDocAt(q)._from = from /\ EdgeDocAt(q)._to = to})
                 <= Cardinality({n \in 1..Len(rows) :
                                   rows[n].src = from /\ rows[n].dst = to})

C5_Witness ==
  /\ A2C
  /\ pc = "done"
  /\ adapter.cntrl = "ADBCUG_Controller"
  /\ Cardinality(MetagraphEdgeDocs) >= 4
  /\ \E n, m \in 1..Len(result[1].edges) :
       n # m /\ result[1].edges[n] = result[1].edges[m]

\* the import_bulk calls of the edge phase: those of the insert made in
\* the loop when k edges have been processed, and those of the insert
\* after the loop
EdgeBatchImports(k) ==
  {m \in 1..Len(imports) :
     imports[m].phase = "edges" /\ ~imports[m].rest /\ imports[m].after = k}
EdgeRestImports == {m \in 1..Len(imports) : imports[m].phase = "edges" /\ imports[m].rest}

\* the edges that are through the loop body, batch test included
EdgesThrough ==
  IF InNodePhase THEN 0
  ELSE IF InEdgePhase THEN i
  ELSE Len(view_edge_list)

\* C11 as stated: with batch_size = b, the edge loop imports after the
\* b-th, 2b-th, ... edge and after no other; each of these imports carries
\* b edge documents; the edges left over, fewer than b, are imported after
\* the loop.
C11_Original ==
  (C2A /\ call.batch_size # Nothing)
    => LET b == call.batch_size[1]
           n == Len(view_edge_list)
       IN /\ \A k \in 1..n :
               IF k <= EdgesThrough /\ k % b = 0
                 THEN TotalDocs(EdgeBatchImports(k)) = b
               ELSE IF pc = "edge_batch" /\ k = i + 1 /\ k % b = 0
                 THEN TotalDocs(EdgeBatchImports(k)) + Cardinality(Buffered) = b
                 ELSE EdgeBatchImports(k) = {}
          /\ IF InNodePhase
               THEN EdgeRestImports = {}
             ELSE IF InEdgePhase
               THEN \/ EdgeRestImports = {}
                    \/ /\ pc = "edge_loop" /\ i >= n
                       /\ TotalDocs(EdgeRestImports) + Cardinality(Buffered) = n % b
               ELSE TotalDocs(EdgeRestImports) = n % b

\* What the edge loop does with batch_size = b: i counts from 0 and the
\* test is i % b = 0, so it imports after the 1st, (b+1)-th, (2b+1)-th, ...
\* edge; the first import carries one document, each later one b, and
\* (n - 1) % b documents are left for the insert after the loop.
C11_EdgeBatchesFromZero ==
  (C2A /\ call.batch_size # Nothing)
    => LET b == call.batch_size[1]
           n == Len(view_edge_list)
       IN /\ \A k \in 1..n :
               IF k <= EdgesThrough /\ (k - 1) % b = 0
                 THEN TotalDocs(EdgeBatchImports(k)) = IF k = 1 THEN 1 ELSE b
               ELSE IF pc = "edge_batch" /\ k = i + 1 /\ (k - 1) % b = 0
                 THEN TotalDocs(EdgeBatchImports(k)) + Cardinality(Buffered)
                        = IF k = 1 THEN 1 ELSE b
                 ELSE EdgeBatchImports(k) = {}
          /\ IF InNodePhase \/ n = 0
               THEN EdgeRestImports = {}
             ELSE IF InEdgePhase
               THEN \/ EdgeRestImports = {}
                    \/ /\ pc = "edge_loop" /\ i >= n
                       /\ TotalDocs(EdgeRestImports) + Cardinality(Buffered) = (n - 1) % b
               ELSE TotalDocs(EdgeRestImports) = (n - 1) % b

\* an import of a single edge document made in the loop although b = 2
C11_Witness ==
  /\ Returned
  /\ call.batch_size = Some(2)
  /\ Len(view_edge_list) = 2
  /\ TotalDocs(EdgeBatchImports(1)) = 1
  /\ TotalDocs(EdgeRestImports) = 1

\* the import_bulk calls a phase makes on a collection
ImportsOn(phase, col) ==
  {m \in 1..Len(imports) : imports[m].phase = phase /\ imports[m].col = col}

\* C12 as stated: with batch_size omitted the batch sizes are the number
\* of nodes and the number of edges, and in each phase a collection gets
\* at most one import_bulk call.
C12_Original ==
  (C2A /\ call.batch_size = Nothing)
    => /\ node_batch_size = Len(cug_nodes)
       /\ edge_batch_size = Len(view_edge_list)
       /\ \A phase \in {"nodes", "edges"}, col \in AllCols :
            Cardinality(ImportsOn(phase, col)) <= 1

\* What holds with batch_size omitted: the node phase makes at most one
\* import_bulk call per collection, carrying all of its node documents; the
\* edge phase imports the first edge alone and the others after the loop,
\* so a collection gets at most two calls.
C12_DefaultBatchSizes ==
  (C2A /\ call.batch_size = Nothing)
    => /\ node_batch_size = Len(cug_nodes)
       /\ edge_batch_size = Len(view_edge_list)
       /\ \A col \in AllCols :
            /\ Cardinality(ImportsOn("nodes", col)) <= 1
            /\ Cardinality(ImportsOn("edges", col)) <= 2
       /\ \A m \in 1..Len(imports) :
            (imports[m].phase = "edges" /\ ~imports[m].rest)
              => imports[m].after = 1 /\ Len(imports[m].doc_list) = 1

\* two import_bulk calls on one edge collection with batch_size omitted
C12_Witness ==
  /\ Returned
  /\ call.batch_size = Nothing
  /\ \E col \in AllCols : Cardinality(ImportsOn("edges", col)) = 2

\* the documents of the given edge collections, in processing order
RECURSIVE EdgeDocSeq(_)
EdgeDocSeq(e_cols) ==
  IF e_cols = <<>> THEN <<>> ELSE db_cols[Head(e_cols)].docs \o EdgeDocSeq(Tail(e_cols))

\* the edge documents the running call reads, in processing order
CallEdgeDocs ==
  IF call.metagraph.edgeCollections = Nothing THEN <<>>
  ELSE EdgeDocSeq(call.metagraph.edgeCollections[1])

\* the weight of an edge document under a default: its value of edge_attr
\* when it has one, the default when it has none
WeightUnder(doc, default) ==
  IF call.edge_attr \in DOMAIN doc THEN doc[call.edge_attr] ELSE default

\* C13: in arangodb_to_cugraph the weight of the edge made from an edge
\* document is the document's value of edge_attr when it has that
\* attribute, and default_edge_attr_value, 0 when the caller omits it, when
\* it has not; so for every edge collected and every row of the result.
C13_EdgeWeightOrDefault ==
  A2C
    => /\ call.entry = "arangodb_to_cugraph"
            => call.default_edge_attr_value =
                 (IF call.passed_default = Nothing THEN 0 ELSE call.passed_default[1])
       /\ Len(cug_edges) <= Len(CallEdgeDocs)
       /\ \A n \in 1..Len(cug_edges) :
            cug_edges[n][3] = WeightUnder(CallEdgeDocs[n], call.default_edge_attr_value)
       /\ pc = "done"
            => /\ Len(result[1].weights[1]) = Len(CallEdgeDocs)
               /\ \A n \in 1..Len(CallEdgeDocs) :
                    result[1].weights[1][n] =
                      WeightUnder(CallEdgeDocs[n], call.default_edge_attr_value)

C13_Witness ==
  /\ A2C
  /\ pc = "done"
  /\ call.entry = "arangodb_to_cugraph"
  /\ call.passed_default = Some(5)
  /\ call.edge_attr = "weights"
  /\ \E n, m \in 1..Len(result[1].weights[1]) :
       /\ result[1].weights[1][n] = 7
       /\ "weights" \in DOMAIN CallEdgeDocs[n]
       /\ result[1].weights[1][m] = 5
       /\ "weights" \notin DOMAIN CallEdgeDocs[m]

\* the call came in through one of the two wrappers
ViaWrapper ==
  A2C /\ call.entry \in {"arangodb_collections_to_cugraph", "arangodb_graph_to_cugraph"}

\* C14 as stated: arangodb_collections_to_cugraph and
\* arangodb_graph_to_cugraph give an edge whose document lacks edge_attr
\* the default_edge_attr_value of their caller, as arangodb_to_cugraph does
\* with that edge_attr and that default_edge_attr_value.
C14_Original ==
  (ViaWrapper /\ pc = "done")
    => /\ Len(result[1].weights[1]) = Len(CallEdgeDocs)
       /\ \A n \in 1..Len(CallEdgeDocs) :
            result[1].weights[1][n] =
              WeightUnder(CallEdgeDocs[n],
                          IF call.passed_default = Nothing THEN 0 ELSE call.passed_default[1])

\* What the two wrappers do: they call arangodb_to_cugraph without
\* default_edge_attr_value, so an edge whose document lacks edge_attr gets
\* the weight 0 whatever the caller passed.
C14_WrappersUseZero ==
  ViaWrapper
    => /\ call.default_edge_attr_value = 0
       /\ pc = "done"
            => \A n \in 1..Len(CallEdgeDocs) :
                 result[1].weights[1][n] = WeightUnder(CallEdgeDocs[n], 0)

\* a wrapper was given the default 5 and an edge without edge_attr has
\* the weight 0
C14_Witness ==
  /\ ViaWrapper
  /\ pc = "done"
  /\ call.passed_default = Some(5)
  /\ \E n \in 1..Len(CallEdgeDocs) :
       /\ call.edge_attr \notin DOMAIN CallEdgeDocs[n]
       /\ result[1].weights[1][n] = 0

\* the metagraph of the running call lacks one of its two keys
MissingKey ==
  A2C /\ (call.metagraph.vertexCollections = Nothing
          \/ call.metagraph.edgeCollections = Nothing)

\* C15 as stated: with a metagraph that lacks 'vertexCollections' or
\* 'edgeCollections', arangodb_to_cugraph raises ValueError.
C15_Original ==
  MissingKey
    => /\ pc # "done"
       /\ (pc = "raised" /\ raised_in = "arangodb_to_cugraph") => raised = "ValueError"

\* What the code does with such a metagraph: the subscript
\* metagraph[...] raises KeyError, for a missing 'edgeCollections' only
\* after the vertex collections have been read; no graph is returned.
C15_MissingKeyRaisesKeyError ==
  MissingKey
    => /\ pc # "done"
       /\ result = Nothing
       /\ (pc = "raised" /\ raised_in = "arangodb_to_cugraph") => raised = "KeyError"
       /\ call.metagraph.vertexCollections = Nothing
            => pc = "raised" /\ raised_in = "arangodb_to_cugraph" /\ adb_map = EmptyMap
       /\ pc = "raised" => raised # "ValueError"

C15_Witness ==
  /\ MissingKey
  /\ call.metagraph.vertexCollections # Nothing
  /\ pc = "raised"
  /\ raised = "KeyError"
  /\ raised_in = "arangodb_to_cugraph"
  /\ adb_map # EmptyMap

\* s is the beginning of t
IsPrefix(s, t) == Len(s) <= Len(t) /\ \A n \in 1..Len(s) : s[n] = t[n]

\* the graph that create_graph makes from the arguments of the call
GraphAsked ==
  [exists |-> TRUE, edge_definitions |-> ListOf(call.edge_definitions),
   orphan_collections |-> ListOf(call.orphan_collections)]

\* C16: with overwrite_graph=True a graph of that name is deleted if there
\* is one (none is no error) and the graph is created from edge_definitions
\* and orphan_collections before the first node is processed; every
\* collection that existed still exists and has kept its documents.
C16_OverwriteGraph ==
  (C2A /\ call.overwrite_graph)
    => /\ db_graphs[call.name] = GraphAsked
       /\ adb_graph = GraphAsked
       /\ adb_v_cols = vertex_collections(GraphAsked)
       /\ adb_e_cols = edge_collections(GraphAsked)
       /\ pc = "raised" => raised_in \in {"__process_cug_node", "__process_cug_edge"}
       /\ \A c \in AllCols :
            call.found.cols[c].exists
              => /\ db_cols[c].exists
                 /\ IsPrefix(call.found.cols[c].docs, db_cols[c].docs)

C16_Witness ==
  /\ C2A
  /\ call.overwrite_graph
  /\ pc = "node_loop"
  /\ i = 1
  /\ cug_map = EmptyMap
  /\ call.found.graphs[call.name].exists
  /\ call.found.graphs[call.name] # GraphAsked
  /\ "dislikes" \notin Range(adb_e_cols)
  /\ db_cols["dislikes"].docs # <<>>
  /\ Len(cug_nodes) > 0

\* C17: when the graph exists and overwrite_graph is False, no graph is
\* deleted or created and no collection is created; the existing graph is
\* the one used and returned, and the vertex and edge collections are those
\* of its definitions, whether edge_definitions are omitted or supplied.
C17_ExistingGraphKept ==
  (C2A /\ ~call.overwrite_graph /\ call.found.graphs[call.name].exists)
    => LET old == call.found.graphs[call.name]
       IN /\ db_graphs = call.found.graphs
          /\ adb_graph = old
          /\ adb_v_cols = vertex_collections(old)
          /\ adb_e_cols = edge_collections(old)
          /\ \A c \in AllCols : db_cols[c].exists = call.found.cols[c].exists
          /\ pc = "done" => result = Some(old)

C17_Witness ==
  /\ Returned
  /\ ~call.overwrite_graph
  /\ call.found.graphs[call.name].exists
  /\ call.edge_definitions = Some(ED_drivers)
  /\ adb_e_cols = <<"likes", "dislikes">>
  /\ result = Some(call.found.graphs[call.name])
  /\ ~db_cols["drives"].exists

\* the target collection and the document list of each call of a list of
\* import_bulk calls
Targets(calls) ==
  [k \in 1..Len(calls) |-> [col |-> calls[k].col, doc_list |-> calls[k].doc_list]]

\* the node loop of cugraph_to_arangodb from node k on, run to its end or
\* to the first exception: the import_bulk calls made on the standard
\* handle, and the map
RECURSIVE NodePhaseCalls(_, _, _, _, _, _, _, _)
NodePhaseCalls(cntrl, nodes, k, map, docs, v_cols, b, calls) ==
  IF k > Len(nodes)
    THEN [exc |-> NoExc, cug_map |-> map, calls |-> calls \o insert_adb_docs(docs, FALSE)]
  ELSE LET out == process_cug_node(cntrl, k, nodes[k], map, docs, v_cols, Len(v_cols) = 1)
       IN IF out.exc # NoExc THEN [exc |-> out.exc, cug_map |-> map, calls |-> calls]
          ELSE IF k % b = 0
            THEN NodePhaseCalls(cntrl, nodes, k + 1, out.cug_map, <<>>, v_cols, b,
                                calls \o insert_adb_docs(out.adb_docs, FALSE))
            ELSE NodePhaseCalls(cntrl, nodes, k + 1, out.cug_map, out.adb_docs, v_cols, b,
                                calls)

\* the edge loop from row k on (rows count from 0), likewise
RECURSIVE EdgePhaseCalls(_, _, _, _, _, _, _, _, _, _)
EdgePhaseCalls(cntrl, rows, k, map, docs, e_cols, b, attr, weights, calls) ==
  IF k >= Len(rows)
    THEN [exc |-> NoExc, calls |-> calls \o insert_adb_docs(docs, FALSE)]
  ELSE LET out == process_cug_edge(cntrl, k, rows[k + 1].src, rows[k + 1].dst, map, docs,
                                   e_cols, Len(e_cols) = 1, attr, weights)
       IN IF out.exc # NoExc THEN [exc |-> out.exc, calls |-> calls]
          ELSE IF k % b = 0
            THEN EdgePhaseCalls(cntrl, rows, k + 1, map, <<>>, e_cols, b, attr, weights,
                                calls \o insert_adb_docs(out.adb_docs, FALSE))
            ELSE EdgePhaseCalls(cntrl, rows, k + 1, map, out.adb_docs, e_cols, b, attr,
                                weights, calls)

\* the import_bulk calls of the whole running call, computed from its
\* arguments other than use_async
CallsOnStandardHandle ==
  LET nodes == NodePhaseCalls(adapter.cntrl, cug_nodes, 1, EmptyMap, <<>>, adb_v_cols,
                              node_batch_size, <<>>)
      edges == EdgePhaseCalls(adapter.cntrl, view_edge_list, 0, nodes.cug_map, <<>>,
                              adb_e_cols, edge_batch_size, call.edge_attr, cug_weights,
                              <<>>)
  IN IF nodes.exc # NoExc THEN nodes.calls ELSE nodes.calls \o edges.calls

\* C18: use_async selects the handle and nothing else: every import_bulk
\* call goes through the async handle when it is True and through the
\* standard handle when it is False; only the async handle leaves imports
\* pending; and the calls of a finished call, their collections and their
\* document lists in order, are those of the same call on the standard
\* handle.
C18_UseAsyncSelectsHandle ==
  C2A
    => /\ \A m \in 1..Len(imports) :
            imports[m].handle = IF call.use_async THEN "async_db" ELSE "db"
       /\ ~call.use_async => async_jobs = <<>>
       /\ \A n \in 1..Len(async_jobs) : async_jobs[n].handle = "async_db"
       /\ pc \in {"done", "raised"} => Targets(imports) = Targets(CallsOnStandardHandle)

C18_Witness ==
  /\ Returned
  /\ call.use_async
  /\ Len(imports) >= 4
  /\ async_jobs # <<>>
  /\ \E m \in 1..(Len(imports) - 1) :
       /\ imports[m].phase = imports[m + 1].phase
       /\ imports[m].after = imports[m + 1].after
       /\ imports[m].col # imports[m + 1].col

\* the node documents made so far: those imported and those in the buffer
NodeDocsMade ==
  Imported("nodes") \cup (IF InNodePhase THEN Buffered ELSE {})

\* C19: with exactly one vertex collection every node goes to it and
\* _identify_cugraph_node is not called, so no controller can make node
\* processing fail; with exactly one edge collection every edge goes to it
\* and _identify_cugraph_edge is not called; either holds whatever the
\* number of the other collections; and every key is the one
\* _keyify_cugraph_node / _keyify_cugraph_edge returns.
C19_IdentifyOnlyWhenNeeded ==
  C2A
    => /\ Len(adb_v_cols) = 1
            => /\ ~(pc = "raised" /\ raised_in = "__process_cug_node")
               /\ \A m \in 1..Len(imports) :
                    imports[m].phase = "nodes" => imports[m].col = adb_v_cols[1]
               /\ \A k \in 1..Len(cug_nodes) :
                    cug_nodes[k] \in DOMAIN cug_map
                      => cug_map[cug_nodes[k]] =
                           adb_id_of(adb_v_cols[1],
                                     keyify_cugraph_node(adapter.cntrl, k, cug_nodes[k],
                                                         adb_v_cols[1]))
       /\ Len(adb_e_cols) = 1
            => /\ ~(pc = "raised" /\ raised_in = "__process_cug_edge")
               /\ \A m \in 1..Len(imports) :
                    imports[m].phase = "edges" => imports[m].col = adb_e_cols[1]
       /\ \A d \in NodeDocsMade :
            \E k \in 1..Len(cug_nodes), col \in Range(adb_v_cols) :
              /\ d._key = keyify_cugraph_node(adapter.cntrl, k, cug_nodes[k], col)
              /\ d._id = adb_id_of(col, d._key)
              /\ cug_map[cug_nodes[k]] = d._id
       /\ \A d \in EdgeDocsMade :
            \E r \in 0..(Len(view_edge_list) - 1), col \in Range(adb_e_cols) :
              /\ d._key = keyify_cugraph_edge(adapter.cntrl, r, view_edge_list[r + 1].src,
                                              view_edge_list[r + 1].dst, cug_map, col)
              /\ d._from = cug_map[view_edge_list[r + 1].src]
              /\ d._to = cug_map[view_edge_list[r + 1].dst]

\* the default controller, whose _identify_cugraph_node raises, gets all
\* nodes into the single vertex collection and then fails on the first
\* edge, there being two edge collections
C19_Witness ==
  /\ C2A
  /\ adapter.cntrl = "ADBCUG_Controller"
  /\ Len(adb_v_cols) = 1
  /\ Len(adb_e_cols) > 1
  /\ Len(cug_nodes) >= 2
  /\ pc = "raised"
  /\ raised_in = "__process_cug_edge"
  /\ Cardinality(NodeDocsMade) = Len(cug_nodes)

\* the vertex documents of the metagraph's vertex collections, each with
\* its collection
CallVertices ==
  IF call.metagraph.vertexCollections = Nothing THEN {}
  ELSE UNION {{[col |-> c, doc |-> d] : d \in Range(db_cols[c].docs)} :
                c \in Range(call.metagraph.vertexCollections[1])}

\* C20: the cuGraph id of a vertex is its _id after
\* _prepare_arangodb_vertex; an edge whose _from or _to is the ArangoDB id
\* of the vertex has that cuGraph id as src or dst; with a controller
\* that leaves _id alone, src and dst are _from and _to.
C20_PreparedVertexId ==
  A2C
    => /\ \A adb_id \in DOMAIN adb_map :
            \E v \in CallVertices :
              /\ v.doc._id = adb_id
              /\ adb_map[adb_id] = prepare_arangodb_vertex(adapter.cntrl, v.doc, v.col)._id
       /\ \A n \in 1..Len(cug_edges) :
            /\ cug_edges[n][1] = adb_map[CallEdgeDocs[n]._from]
            /\ cug_edges[n][2] = adb_map[CallEdgeDocs[n]._to]
       /\ pc = "done"
            => /\ Len(result[1].edges) = Len(CallEdgeDocs)
               /\ \A n \in 1..Len(CallEdgeDocs) :
                    /\ result[1].edges[n].src = adb_map[CallEdgeDocs[n]._from]
                    /\ result[1].edges[n].dst = adb_map[CallEdgeDocs[n]._to]
                    /\ adapter.cntrl # "Renaming_ADBCUG_Controller"
                         => /\ result[1].edges[n].src = CallEdgeDocs[n]._from
                            /\ result[1].edges[n].dst = CallEdgeDocs[n]._to

C20_Witness ==
  /\ A2C
  /\ pc = "done"
  /\ adapter.cntrl = "Renaming_ADBCUG_Controller"
  /\ \E n \in 1..Len(CallEdgeDocs) :
       /\ CallEdgeDocs[n]._from = "Person/1"
       /\ CallEdgeDocs[n]._to = "Car/1"
       /\ result[1].edges[n] = [src |-> "Person_1", dst |-> "Car_1"]

\* ------------------------------------- _string_to_arangodb_key_helper
\* A Python str handed to the helper is the sequence of its characters.
\* The characters tried: ASCII letters and a digit, two of VALID_KEY_CHARS,
\* three ASCII characters that are neither (conftest's bipartite ids hold
\* "~", "?" and " "), and a letter outside ASCII.
MaxString == 3

Chars == {"a", "K", "7", "_", "!", "~", "?", " ", "é"}

Strings == SeqsUpTo(Chars, MaxString)

VALID_KEY_CHARS ==
  {"_", "-", ":", ".", "@", "(", ")", "+", ",", "=", ";", "$", "!", "*", "'", "%"}

\* str.isalnum() of one character: true of every letter and digit of
\* Unicode, the ASCII ones and the others alike.
isalnum(s) == s \in {"a", "K", "7", "é"}

RECURSIVE string_to_arangodb_key_helper_from(_, _, _)
string_to_arangodb_key_helper_from(string, k, res) ==
  IF k > Len(string) THEN res
  ELSE string_to_arangodb_key_helper_from(string, k + 1,
         IF isalnum(string[k]) \/ string[k] \in VALID_KEY_CHARS
           THEN res \o <<string[k]>>
           ELSE res)

string_to_arangodb_key_helper(string) ==
  string_to_arangodb_key_helper_from(string, 1, <<>>)

CallStringToArangodbKeyHelper ==
  /\ pc = "new"
  /\ \E string \in Strings :
       /\ call' = [op |-> "_string_to_arangodb_key_helper", string |-> string]
       /\ result' = Some(string_to_arangodb_key_helper(string))
  /\ pc' = "done"
  /\ UNCHANGED <<adapter, raised, raised_in, db_vars, c2a_vars, a2c_vars>>

InitKey == InitWith({EmptyDb})

NextKey == CallStringToArangodbKeyHelper

SpecKey == InitKey /\ [][NextKey]_vars

\* ---------------------------------------------------------------- C21
KeyHelperReturned ==
  pc = "done" /\ call.op = "_string_to_arangodb_key_helper"

\* The characters ArangoDB takes in a _key: the ASCII letters and digits
\* and the punctuation of VALID_KEY_CHARS.
KeyChar(s) == s \in {"a", "K", "7"} \/ s \in VALID_KEY_CHARS

ValidKey(key) == Len(key) >= 1 /\ \A k \in 1..Len(key) : KeyChar(key[k])

\* C21 as stated: for every input string the helper returns a valid _key,
\* non-empty and made of key letters, key digits and VALID_KEY_CHARS only.
C21_Original ==
  KeyHelperReturned => ValidKey(result[1])

\* C21, what the code does: the helper returns the input's characters that
\* are alphanumeric or in VALID_KEY_CHARS, in their order, and nothing
\* else; the result is empty exactly when the input has no such character,
\* and a letter outside ASCII is kept.
C21_KeyHelperFilters ==
  KeyHelperReturned =>
    LET string == call.string
        key == result[1]
        kept == {k \in 1..Len(string) :
                   isalnum(string[k]) \/ string[k] \in VALID_KEY_CHARS}
    IN /\ Len(key) = Cardinality(kept)
       /\ \A k \in kept :
            key[Cardinality({j \in kept : j <= k})] = string[k]
       /\ (key = <<>>) <=> (kept = {})

\* the helper has returned the empty string for an input of invalid
\* characters only
C21_Witness ==
  /\ KeyHelperReturned
  /\ call.string = <<"~", "?">>
  /\ result[1] = <<>>

\* ---------------------------------------------------------------- C22
\* the places of the history of import_bulk calls: call m, document n
ImportPlaces ==
  UNION {{<<m, n>> : n \in 1..Len(imports[m].doc_list)} : m \in 1..Len(imports)}

\* the places that carry the document of node k, and of row j of the edge
\* list (rows count from 1 here)
NodePlaces(k) ==
  {p \in ImportPlaces :
     imports[p[1]].doc_list[p[2]]
       = [_id |-> adb_id_of(NodeCol(k), NodeKey(k)), _key |-> NodeKey(k)]}
EdgePlaces(j) ==
  {p \in ImportPlaces :
     LET doc == imports[p[1]].doc_list[p[2]]
         row == view_edge_list[j]
     IN /\ "_from" \in DOMAIN doc
        /\ doc._key = keyify_cugraph_edge(adapter.cntrl, j - 1, row.src, row.dst,
                                          cug_map, EdgeCol(j))
        /\ doc._from = cug_map[row.src]
        /\ doc._to = cug_map[row.dst]}

\* C22: when a cugraph_to_arangodb call has returned, whatever the batch
\* size and the collections chosen, the document of every node and of
\* every row of the edge list has been passed to import_bulk exactly once,
\* on the collection chosen for it, and nothing else has been passed: the
\* documents imported per collection depend on the graph and the choice of
\* collections only, never on batch_size.
C22_OneToOne ==
  Returned =>
    /\ \A k \in 1..Len(cug_nodes) :
         /\ Cardinality(NodePlaces(k)) = 1
         /\ \A p \in NodePlaces(k) : imports[p[1]].col = NodeCol(k)
    /\ \A j \in 1..Len(view_edge_list) :
         /\ Cardinality(EdgePlaces(j)) = 1
         /\ \A p \in EdgePlaces(j) : imports[p[1]].col = EdgeCol(j)
    /\ Cardinality(ImportPlaces) = Len(cug_nodes) + Len(view_edge_list)

\* a call with batch_size 1 has returned after importing three nodes into
\* two vertex collections and two edges into two edge collections
C22_Witness ==
  /\ Returned
  /\ call.batch_size = Some(1)
  /\ Len(cug_nodes) = 3 /\ Len(view_edge_list) = 2
  /\ NodeCol(1) # NodeCol(2)
  /\ EdgeCol(1) # EdgeCol(2)
  /\ Len(imports) = 5

\* ---------------------------------------------------------------- C23
\* the edge documents of the metagraph's edge collections with an end that
\* is a vertex of none of the metagraph's vertex collections
DanglingEdgeDocs ==
  IF MissingKey THEN {}
  ELSE {p \in MetagraphEdgeDocs :
          \/ \A v \in CallVertices : v.doc._id # EdgeDocAt(p)._from
          \/ \A v \in CallVertices : v.doc._id # EdgeDocAt(p)._to}

\* C23: when an edge document of the metagraph's edge collections has a
\* _from or _to that is a vertex of none of the metagraph's vertex
\* collections, arangodb_to_cugraph ends with the KeyError of the adb_map
\* lookup in __process_adb_edge and returns no graph, whatever edges it had
\* processed before.
C23_DanglingEdgeRaises ==
  A2C /\ pc \in {"done", "raised"} /\ DanglingEdgeDocs # {} =>
    /\ pc = "raised"
    /\ raised = "KeyError"
    /\ raised_in = "__process_adb_edge"
    /\ result = Nothing

\* the call has failed on the edge of dislikes that points at Person/9,
\* after the three edges of likes had been processed
C23_Witness ==
  /\ A2C /\ pc = "raised" /\ raised = "KeyError"
  /\ raised_in = "__process_adb_edge"
  /\ DanglingEdgeDocs = {<<"dislikes", 1>>}
  /\ Len(cug_edges) = 3
  /\ result = Nothing

\* ---------------------------------------------------------------- C24
\* C24: arangodb_to_cugraph is a straight pipeline.  While the vertex
\* collections are processed no edge has been processed; once the edge
\* collections are reached adb_map has an entry for every document of
\* every vertex collection of the metagraph; there is a graph only when
\* the call has returned, and it then holds one row per document of the
\* metagraph's edge collections, in processing order; and the graph is
\* set once, by the step that follows the last edge collection.
C24_Pipeline ==
  /\ [](A2C =>
          /\ pc = "vertex_collections" => cug_edges = <<>>
          /\ pc = "edge_collections" \/ cug_edges # <<>> =>
               DOMAIN adb_map = {v.doc._id : v \in CallVertices}
          /\ result # Nothing <=> pc = "done"
          /\ pc = "done" =>
               /\ result[1].edges =
                    [n \in 1..Len(CallEdgeDocs) |->
                       [src |-> adb_map[CallEdgeDocs[n]._from],
                        dst |-> adb_map[CallEdgeDocs[n]._to]]]
               /\ Len(result[1].weights[1]) = Len(CallEdgeDocs))
  /\ [][A2C /\ result' # result =>
          /\ pc = "edge_collections"
          /\ col_i > Len(call.metagraph.edgeCollections[1])
          /\ result = Nothing
          /\ pc' = "done"]_vars

\* the call has returned a graph of the four edges of likes and drives,
\* processed after the three vertices of Person and Car
C24_Witness ==
  /\ A2C /\ pc = "done"
  /\ call.metagraph.edgeCollections = Some(<<"drives", "likes">>)
  /\ Cardinality(DOMAIN adb_map) = 3
  /\ Len(result[1].edges) = 4
  /\ result[1].edges[1] # result[1].edges[4]

\* ---------------------------------------------------------------- C25
\* C25: in cugraph_to_arangodb the buffer is empty when the node phase
\* has ended and when the call has returned; no import_bulk call that
\* carries an edge document comes before, or is, one that carries a node
\* document; node documents are imported on vertex collections of the
\* graph only and edge documents on its edge collections only.
C25_PhasesApart ==
  C2A =>
    LET Carries(m, edge) ==
          \E d \in Range(imports[m].doc_list) : ("_from" \in DOMAIN d) = edge
    IN /\ (pc = "edge_loop" /\ i = 0) \/ pc = "done" => adb_docs = <<>>
       /\ \A m1, m2 \in 1..Len(imports) :
            Carries(m1, FALSE) /\ Carries(m2, TRUE) => m1 < m2
       /\ \A m \in 1..Len(imports) :
            /\ Carries(m, FALSE) =>
                 imports[m].col \in Range(adb_v_cols) \ Range(adb_e_cols)
            /\ Carries(m, TRUE) =>
                 imports[m].col \in Range(adb_e_cols) \ Range(adb_v_cols)

\* a call has returned after two import_bulk calls with node documents
\* and, after them, two with edge documents
C25_Witness ==
  /\ Returned
  /\ Len(imports) = 4
  /\ \A m \in 1..2 : \A d \in Range(imports[m].doc_list) : "_from" \notin DOMAIN d
  /\ \A m \in 3..4 : \A d \in Range(imports[m].doc_list) : "_from" \in DOMAIN d
  /\ imports[1].col # imports[2].col
  /\ adb_docs = <<>>

\* ---------------------------------------------------------------- C26
\* C26: at every point of cugraph_to_arangodb the buffer holds, over all
\* its collections, at most node_batch_size documents in the node phase
\* and at most edge_batch_size documents in the edge phase, and none when
\* the call has returned; where a batch test is evaluated its divisor is
\* not 0; and a phase without nodes, or without edges, makes no
\* import_bulk call.
C26_BufferBound ==
  C2A =>
    LET held == UNION {{<<n, k>> : k \in 1..Len(adb_docs[n].doc_list)} :
                         n \in 1..Len(adb_docs)}
    IN /\ InNodePhase => Cardinality(held) <= node_batch_size
       /\ InEdgePhase => Cardinality(held) <= edge_batch_size
       /\ pc = "done" => held = {}
       /\ pc = "node_batch" => node_batch_size # 0
       /\ pc = "edge_batch" => edge_batch_size # 0
       /\ raised \notin {"ZeroDivisionError", "ArithmeticError"}
       /\ Len(cug_nodes) = 0 => \A m \in 1..Len(imports) : imports[m].phase # "nodes"
       /\ Len(view_edge_list) = 0 => \A m \in 1..Len(imports) : imports[m].phase # "edges"

\* a call without batch_size on a graph of three nodes and no edge has
\* returned: the buffer had grown to node_batch_size = 3 documents when
\* the loop inserted them, and the edge phase, with edge_batch_size = 0,
\* made no import_bulk call
C26_Witness ==
  /\ Returned
  /\ call.batch_size = Nothing
  /\ node_batch_size = 3
  /\ edge_batch_size = 0
  /\ TotalDocs(NodeBatchImports(3)) = 3
  /\ \A m \in 1..Len(imports) : imports[m].phase = "nodes"

\* ---------------------------------------------------------------- C27
\* C27: with the default controller, once the edge phase of
\* cugraph_to_arangodb is reached cug_map has an entry for every node of
\* the graph; every edge document made has as _from, and as _to, the _id
\* of a node document that an import_bulk call of the node phase carried,
\* that _id being '<collection>/<key>'; and no edge fails on a missing
\* entry of cug_map.
C27_EdgeEndsAreNodeIds ==
  C2A /\ adapter.cntrl = "ADBCUG_Controller" =>
    LET NodeIds ==
          UNION {{d._id : d \in {x \in Range(imports[m].doc_list) :
                                   x._id = adb_id_of(imports[m].col, x._key)}} :
                 m \in {n \in 1..Len(imports) : imports[n].phase = "nodes"}}
    IN /\ InEdgePhase \/ pc = "done" => DOMAIN cug_map = Range(cug_nodes)
       /\ \A e \in EdgeDocsMade : e._from \in NodeIds /\ e._to \in NodeIds
       /\ raised # "KeyError"

\* a call with the default controller has returned after importing two
\* edges, one of them between two different nodes
C27_Witness ==
  /\ Returned
  /\ adapter.cntrl = "ADBCUG_Controller"
  /\ Cardinality(EdgeDocsMade) = 2
  /\ \E e \in EdgeDocsMade : e._from = "numbers/1" /\ e._to = "numbers/2"
  /\ \E e \in EdgeDocsMade : e._from = "numbers/2" /\ e._to = "numbers/3"

\* ---------------------------------------------------------------- C28
\* C28: when cugraph_to_arangodb has ended because processing a node or
\* an edge raised, the error is NotImplementedError or ValueError, the
\* graph the call created or looked up is still in the database, every
\* document passed to import_bulk before the failure is in its collection
\* (once the imports queued on the async handle have run), these being
\* all the node documents when an edge failed, and the documents in the
\* buffer were passed to no import_bulk call and are in no collection.
C28_NoRollback ==
  C2A /\ pc = "raised" /\ raised_in \in {"__process_cug_node", "__process_cug_edge"} =>
    /\ raised \in {"NotImplementedError", "ValueError"}
    /\ adb_graph.exists /\ db_graphs[call.name] = adb_graph
    /\ AllImportsRun =>
         \A m \in 1..Len(imports) :
           Range(imports[m].doc_list) \subseteq Range(db_cols[imports[m].col].docs)
    /\ raised_in = "__process_cug_edge" =>
         \A k \in 1..Len(cug_nodes) : Cardinality(NodePlaces(k)) = 1
    /\ \A n \in 1..Len(adb_docs) : \A d \in Range(adb_docs[n].doc_list) :
         /\ d \notin Range(db_cols[adb_docs[n].col].docs)
         /\ \A m \in 1..Len(imports) : d \notin Range(imports[m].doc_list)

\* the second edge of a call has raised ValueError: the graph is there,
\* the three node documents and the first edge document are in their
\* collections
C28_Witness ==
  /\ C2A /\ pc = "raised" /\ raised_in = "__process_cug_edge"
  /\ raised = "ValueError"
  /\ i = 1
  /\ db_graphs[call.name].exists
  /\ AllImportsRun
  /\ Len(cug_nodes) = 3
  /\ \A k \in 1..3 : WithKey(db_cols[NodeCol(k)].docs, NodeKey(k)) # {}
  /\ \E m \in 1..Len(imports) :
       imports[m].phase = "edges" /\ db_cols[imports[m].col].docs # <<>>

====
